---- MODULE Spec2Model ----
(***************************************************************************)
(* Verification model of betterflow-sync: the sync engine                  *)
(* (src/sync/sync_engine.py), the offline queue (src/sync/queue.py) and    *)
(* the sync coordinator's scheduler wiring (src/main.py).                  *)
(*                                                                         *)
(* Time is counted in ticks of 0.5 s, so that every threshold of the code  *)
(* (0.5 s, 2 s, 300 s, 2 min, 24 h) is a whole number of ticks.            *)
(*                                                                         *)
(* The specifications share the variables:                                  *)
(*   Spec       the sync engine with the tracker, the remote, the clock    *)
(*              and the callback threads (pause / resume / private mode)   *)
(*   SpecSend   sync cycles against a remote whose send_events may fail    *)
(*   SpecQueue  the offline queue called from two threads                  *)
(*   SpecSched  the coordinator's sync jobs on the scheduler's workers     *)
(*   SpecRetry  one request of the HTTP client under a retry policy        *)
(*   SpecDrain  sync cycles that drain a queue left by failed uploads      *)
(*   SpecPrivate  the private-time toggle against the clock                *)
(*   SpecGap    _fill_window_gaps over window and afk events               *)
(*   SpecLock   processes contending for the single-instance lock          *)
(*   SpecShutdown  the application's shutdown entered from two threads     *)
(*   SpecSupervisor  the supervisor of the tracker's processes             *)
(*   SpecNetwork  the network-change channel                               *)
(*   SpecAuth  one browser authorization flow                              *)
(*   SpecDaily  concurrent calls of the daily time tracker                 *)
(*   SpecReminder  the break and private-time reminders                    *)
(*   SpecCrash  sync cycles cut by restarts, the remote unreachable        *)
(*   SpecBacklog  sync cycles over more events than one fetch returns      *)
(*   SpecResend  sync cycles over an event the watcher keeps extending     *)
(*   SpecPause  the application's pause and resume handlers                *)
(*   SpecPrivateOffline  private time against a remote that fails          *)
(*   SpecActive  one call of _is_active_during                             *)
(*   SpecTransform  one call of _transform_event                           *)
(*   SpecConfig  the configuration updated from the server                 *)
(***************************************************************************)
EXTENDS Integers, Sequences, FiniteSets, TLC

(***************************************************************************)
(* Bounds of the model                                                     *)
(***************************************************************************)
\* last tick of the clock
MaxTime == 5
\* ticks between two readings of the clock
ClockStep == 5
\* largest RetryConfig.max_retries a retry_with_backoff call is given in SpecRetry
MaxRetries == 2
\* sync intervals the clock of SpecDrain runs through
MaxDrainSteps == 4
\* rows in the queue when SpecDrain starts
MaxDrainRows == 3
\* sync cycles of SpecDrain that send from the queue
MaxDrainCycles == 6
\* last reading of the clock of SpecPrivate, which steps by one tick
MaxPrivateTime == 4
\* private_time events SpecPrivate lets one private interval send
MaxPrivateSends == 2
\* lock files SpecLock lets the processes create
MaxLockFiles == 3
\* _shutdown calls SpecShutdown lets one thread make
MaxShutdownCalls == 2
\* observations of the network SpecNetwork follows
MaxNetObs == 5
\* requests the callback server of SpecAuth handles
MaxAuthRequests == 3
\* calls of add_active_time SpecDaily follows
MaxAddCalls == 3
\* readings of time.monotonic SpecReminder follows, in ticks of 30 minutes
MaxMono == 6
\* latest start and longest duration of an afk event of SpecActive, and the
\* latest end of the interval asked about
MaxAfkStart == 2
MaxAfkDuration == 2
MaxActiveEnd == 4
\* events the window watcher records per bucket
MaxEvents == 2
\* sync.batch_size of the configuration in force (config.py:170)
BatchSize == 2
\* largest max_size an OfflineQueue is constructed with in SpecQueue
MaxQueueSize == 2
\* events handed to enqueue over a run of SpecQueue
MaxEnqueued == 4
\* rows the engine writes to the offline queue over a run of SpecSend
MaxQueued == 5
\* outgoing events of the cycle whose _send_events SpecSend follows
MaxOutgoing == 3

(***************************************************************************)
(* Program constants (durations in ticks of 0.5 s)                         *)
(***************************************************************************)
\* sync_engine.py:431  event.duration < 0.5
MIN_DURATION == 1
\* sync_engine.py:275  abs(event.duration - prev_duration) < 0.5
DEDUP_EPS == 1
\* sync_engine.py:394  gap_seconds < 2.0
MIN_GAP == 4
\* sync_engine.py:375  max_gap_seconds = 300.0
MAX_GAP == 600
\* sync_engine.py:247  timedelta(minutes=2)
LOOKBACK == 240
\* sync_engine.py:244  timedelta(hours=24)
FIRST_RUN_LOOKBACK == 172800
\* sync_engine.py:468  timedelta(minutes=1)
FUTURE_CLAMP == 120
\* sync_engine.py:87
SENT_CACHE_MAX == 10000
\* sync_engine.py:77
HEARTBEAT_INTERVAL == 5
\* sync_engine.py:569  remove_failed(max_retries=5)
MAX_RETRIES == 5
\* sync_engine.py:579  batch_size * 10
MAX_BATCHES_PER_CYCLE == 10
\* sync_engine.py:328  limit=5000
AFK_FETCH_LIMIT == 5000
\* sync_engine.py:520  duration < 1 (second)
MIN_PRIVATE_DURATION == 2
\* sync_engine.py:609  60 s and 600 s
BACKOFF_BASE == 120
BACKOFF_MAX == 1200

\* bf_client.py:101  DEFAULT_RETRY_CONFIG.max_retries
HTTP_MAX_RETRIES == 3

\* aw_manager.py:43  STARTUP_TIMEOUT = 10 (seconds)
STARTUP_TIMEOUT == 20
\* aw_manager.py:44  SHUTDOWN_TIMEOUT = 5 (seconds)
SHUTDOWN_TIMEOUT == 10
\* aw_manager.py:476  urlopen(url, timeout=2)
URLOPEN_TIMEOUT == 4
\* aw_manager.py:481  time.sleep(0.5)
STARTUP_POLL == 1

\* Optional[datetime] / Optional[float] that is None
None == 0 - 1

VARIABLES
    \* wall clock (datetime.now) and the tracker's store
    now, events,
    \* offline_queue.db: sync_checkpoints, queued_events, AUTOINCREMENT, max_size
    checkpoints, rows, next_row_id, max_size,
    \* SyncEngine fields
    paused, private_mode, private_start,
    heartbeat_count, queue_consecutive_failures, queue_backoff_until, sent_cache,
    \* the sync() call in flight: position, locals, SyncStats
    pc, cyc, stats,
    \* observation of the run (no effect on the program)
    obs,
    \* threads inside OfflineQueue.enqueue; enq observes the calls: events handed
    \* over so far (the k-th is the payload k), calls begun, two calls overlapped
    th, enq,
    \* SyncCoordinator: scheduler state and the _do_sync runs
    sched,
    \* the call under observation in the specifications of one call (of
    \* BetterFlowClient._request, retry_with_backoff, _fill_window_gaps, ...):
    \* its arguments where the tracker does not hold them, and what the call did
    req,
    \* the component beside the sync engine that a specification studies (the
    \* instance lock, the application's shutdown, ...): its state
    comp

storeVars == <<checkpoints, rows, next_row_id, max_size>>
engineVars == <<paused, private_mode, private_start,
                heartbeat_count, queue_consecutive_failures, queue_backoff_until,
                sent_cache>>
cycleVars == <<pc, cyc, stats>>
vars == <<now, events, checkpoints, rows, next_row_id, max_size,
          paused, private_mode, private_start,
          heartbeat_count, queue_consecutive_failures, queue_backoff_until, sent_cache,
          pc, cyc, stats, obs, th, enq, sched, req, comp>>

(***************************************************************************)
(* Sequences                                                               *)
(***************************************************************************)
Min(a, b) == IF a <= b THEN a ELSE b
Max(a, b) == IF a >= b THEN a ELSE b
Abs(a) == IF a >= 0 THEN a ELSE 0 - a
Range(s) == {s[i] : i \in 1..Len(s)}
\* s[:n]
FirstN(s, n) == SubSeq(s, 1, Min(n, Len(s)))
\* the n last elements of s (the newest n of an oldest-first list)
LastN(s, n) == IF Len(s) <= n THEN s ELSE SubSeq(s, Len(s) - n + 1, Len(s))

RECURSIVE Pow2(_)
Pow2(n) == IF n <= 0 THEN 1 ELSE 2 * Pow2(n - 1)

(***************************************************************************)
(* OfflineQueue (queue.py).  rows is the table queued_events in rowid      *)
(* order; a row is [id, event_data, created_at, retry_count].              *)
(***************************************************************************)
\* ORDER BY created_at ASC: a stable sort, so rows with equal created_at stay
\* in rowid order (the order the scan of idx_created_at yields)
RECURSIVE OrderByCreatedAt(_)
OrderByCreatedAt(rs) ==
    IF rs = <<>> THEN <<>>
    ELSE LET sorted == OrderByCreatedAt(SubSeq(rs, 1, Len(rs) - 1))
             x == rs[Len(rs)]
         IN SelectSeq(sorted, LAMBDA y : y.created_at <= x.created_at)
            \o <<x>>
            \o SelectSeq(sorted, LAMBDA y : y.created_at > x.created_at)

\* queue.py:248  size()
size(rs) == Len(rs)

\* queue.py:254  is_empty()
is_empty(rs) == size(rs) = 0

\* queue.py:146  dequeue(batch_size): ORDER BY created_at ASC LIMIT ?
dequeue(rs, batch_size) == FirstN(OrderByCreatedAt(rs), batch_size)

\* queue.py:232  _remove_oldest(count)
remove_oldest(rs, count) ==
    LET ids == {r.id : r \in Range(dequeue(rs, count))}
    IN SelectSeq(rs, LAMBDA r : r.id \notin ids)

\* queue.py:123  events[-self.max_size:] when the batch is larger than max_size
truncate_batch(evs, maxsz) == IF Len(evs) > maxsz THEN LastN(evs, maxsz) ELSE evs

\* queue.py:129  rows to evict before the insert, from the size that was read
overflow(current_size, n, maxsz) ==
    IF current_size + n > maxsz THEN current_size + n - maxsz ELSE 0

\* queue.py:136  INSERT INTO queued_events (event_data, created_at)
insert_rows(rs, evs, t, nid) ==
    rs \o [i \in 1..Len(evs) |->
            [id |-> nid + i - 1, event_data |-> evs[i], created_at |-> t,
             retry_count |-> 0]]

\* queue.py:110  enqueue(events) run by one caller without interruption
enqueue(rs, evs, t, nid, maxsz) ==
    IF evs = <<>> THEN rs
    ELSE LET kept == truncate_batch(evs, maxsz)
             room == remove_oldest(rs, overflow(size(rs), Len(kept), maxsz))
         IN insert_rows(room, kept, t, nid)

\* rows the call inserts: AUTOINCREMENT moves on by that many
enqueue_count(evs, maxsz) == Len(truncate_batch(evs, maxsz))

\* queue.py:167  remove(event_ids)
remove(rs, ids) == SelectSeq(rs, LAMBDA r : r.id \notin ids)

\* queue.py:190  increment_retry(event_ids)
increment_retry(rs, ids) ==
    [i \in 1..Len(rs) |->
        IF rs[i].id \in ids
        THEN [rs[i] EXCEPT !.retry_count = rs[i].retry_count + 1]
        ELSE rs[i]]

\* queue.py:210  remove_failed(max_retries)
remove_failed(rs, max_retries) ==
    SelectSeq(rs, LAMBDA r : r.retry_count < max_retries)

(***************************************************************************)
(* The tracker (ActivityWatch, third party).  events[b] is bucket b's      *)
(* store, oldest first; an event is [id, timestamp, duration, app, status].*)
(***************************************************************************)
\* aw_client.py:16-21  bucket types; one window bucket and one afk bucket run
WindowBuckets == <<"bw">>
WebBuckets == <<>>
AfkBuckets == <<"ba">>
InputBuckets == <<>>
AllBuckets == Range(WindowBuckets) \cup Range(WebBuckets)
              \cup Range(AfkBuckets) \cup Range(InputBuckets)

bucket_type(b) ==
    IF b \in Range(WindowBuckets) THEN "currentwindow"
    ELSE IF b \in Range(WebBuckets) THEN "aw-watcher-web"
    ELSE IF b \in Range(AfkBuckets) THEN "afkstatus"
    ELSE "aw-watcher-input"

\* data.get("app") of an event without the key
NoApp == ""
NoStatus == ""
Apps == {"Editor", "1Password"}
\* config.py:155  privacy.exclude_apps
exclude_apps == {"1Password"}

\* what the window watcher may write in data
BucketData == {[app |-> a, status |-> NoStatus] : a \in Apps}

\* the afk watcher's open event: the user is at the keyboard from tick 0 on
AfkOpen == [id |-> 1, timestamp |-> 0, duration |-> 0, app |-> NoApp,
            status |-> "not-afk"]


Reverse(s) == [i \in 1..Len(s) |-> s[Len(s) + 1 - i]]

\* events.sort(key=lambda e: e.timestamp): stable
RECURSIVE SortByTimestamp(_)
SortByTimestamp(es) ==
    IF es = <<>> THEN <<>>
    ELSE LET sorted == SortByTimestamp(SubSeq(es, 1, Len(es) - 1))
             x == es[Len(es)]
         IN SelectSeq(sorted, LAMBDA y : y.timestamp <= x.timestamp)
            \o <<x>>
            \o SelectSeq(sorted, LAMBDA y : y.timestamp > x.timestamp)

\* aw_client.py:172  get_events(bucket, start, end, limit): newest first
get_events(b, start, end, limit) ==
    FirstN(Reverse(SelectSeq(events[b],
                LAMBDA e : e.timestamp >= start /\ e.timestamp <= end)), limit)

\* aw_client.py:219  get_events_since(bucket, since, limit)
get_events_since(b, since, limit) == get_events(b, since, now, limit)

(***************************************************************************)
(* SyncEngine: the pure parts                                              *)
(***************************************************************************)
EmptyStats == [events_fetched |-> 0, events_filtered |-> 0, events_sent |-> 0,
               events_queued |-> 0, buckets_synced |-> 0, gaps_filled |-> 0,
               errors |-> 0]

\* sent_cache is the dict in insertion order: a sequence of [key, duration]
CacheGet(cache, k) ==
    IF \E i \in 1..Len(cache) : cache[i].key = k
    THEN cache[CHOOSE i \in 1..Len(cache) : cache[i].key = k].duration
    ELSE None

CachePut(cache, k, d) ==
    IF \E i \in 1..Len(cache) : cache[i].key = k
    THEN [i \in 1..Len(cache) |->
            IF cache[i].key = k THEN [key |-> k, duration |-> d] ELSE cache[i]]
    ELSE Append(cache, [key |-> k, duration |-> d])

\* sync_engine.py:286  evict the oldest entries beyond _SENT_CACHE_MAX
CacheEvict(cache) ==
    IF Len(cache) > SENT_CACHE_MAX
    THEN SubSeq(cache, Len(cache) - SENT_CACHE_MAX + 1, Len(cache))
    ELSE cache

\* sync_engine.py:235  _fetch_bucket_events: look back from the checkpoint,
\* read at most batch_size events, sort oldest first
lookback_start(b) ==
    IF checkpoints[b] = None THEN now - FIRST_RUN_LOOKBACK
    ELSE checkpoints[b] - LOOKBACK

fetch_bucket_events(b) ==
    SortByTimestamp(get_events_since(b, lookback_start(b), BatchSize))

\* sync_engine.py:315  _get_afk_events_for_range over all afk buckets
RECURSIVE ConcatAfk(_, _, _)
ConcatAfk(bs, start, end) ==
    IF bs = <<>> THEN <<>>
    ELSE get_events(Head(bs), start, end, AFK_FETCH_LIMIT)
         \o ConcatAfk(Tail(bs), start, end)

get_afk_events_for_range(start, end) ==
    SortByTimestamp(ConcatAfk(AfkBuckets, start, end))

\* sync_engine.py:337  _is_active_during: walk the afk events with a cursor
RECURSIVE ActiveWalk(_, _, _, _)
ActiveWalk(cursor, end, afk, i) ==
    IF i > Len(afk) THEN cursor >= end
    ELSE LET ev_start == afk[i].timestamp
             ev_end == afk[i].timestamp + afk[i].duration
         IN IF ev_end <= cursor THEN ActiveWalk(cursor, end, afk, i + 1)
            ELSE IF ev_start > cursor THEN FALSE
            ELSE IF afk[i].status # "not-afk" THEN FALSE
            ELSE IF ev_end >= end THEN TRUE
            ELSE ActiveWalk(ev_end, end, afk, i + 1)

is_active_during(start, end, afk) ==
    IF afk = <<>> THEN FALSE ELSE ActiveWalk(start, end, afk, 1)

\* the gap is filled across an app switch too
gap_fillable_any_app(wevs, i, afk) ==
    LET current_end == wevs[i].timestamp + wevs[i].duration
        gap == wevs[i + 1].timestamp - current_end
    IN /\ ~(gap < MIN_GAP \/ gap > MAX_GAP)
       /\ is_active_during(current_end, wevs[i + 1].timestamp, afk)

\* sync_engine.py:386-403  is the gap after window event i to be filled
gap_fillable(wevs, i, afk) ==
    LET current_end == wevs[i].timestamp + wevs[i].duration
        gap == wevs[i + 1].timestamp - current_end
    IN /\ ~(gap < MIN_GAP \/ gap > MAX_GAP)
       /\ wevs[i].app = wevs[i + 1].app
       /\ is_active_during(current_end, wevs[i + 1].timestamp, afk)

\* sync_engine.py:371  _fill_window_gaps: the events with durations extended
fill_window_gaps(wevs, afk) ==
    IF Len(wevs) < 2 \/ afk = <<>> THEN wevs
    ELSE [i \in 1..Len(wevs) |->
            IF i < Len(wevs) /\ gap_fillable(wevs, i, afk)
            THEN [wevs[i] EXCEPT !.duration = wevs[i + 1].timestamp - wevs[i].timestamp]
            ELSE wevs[i]]

\* its return value: the number of gaps filled
gaps_filled(wevs, afk) ==
    IF Len(wevs) < 2 \/ afk = <<>> THEN 0
    ELSE Cardinality({i \in 1..(Len(wevs) - 1) : gap_fillable(wevs, i, afk)})

\* the filter with the exclude_apps test left out
is_filtered_short_only(e) == e.duration < MIN_DURATION

\* sync_engine.py:427-432  the client-side filter of _transform_event
is_filtered(e) ==
    \/ (e.app # NoApp /\ e.app \in exclude_apps)
    \/ e.duration < MIN_DURATION

\* sync_engine.py:415  _transform_event: <<>> for None, else the event to upload
transform_event(e, bucket_id, btype) ==
    IF is_filtered(e) THEN <<>>
    ELSE <<[id |-> e.id,
            timestamp |-> IF e.timestamp > now + FUTURE_CLAMP THEN now ELSE e.timestamp,
            duration |-> Max(0, e.duration),
            bucket_id |-> bucket_id,
            bucket_type |-> IF btype = "afkstatus" /\ e.status = "afk"
                            THEN "break" ELSE btype,
            app |-> e.app,
            status |-> e.status]>>

\* sync_engine.py:275  dedup: already sent with a duration within 0.5 s
is_duplicate(prev_duration, duration) ==
    prev_duration # None /\ Abs(duration - prev_duration) < DEDUP_EPS

\* sync_engine.py:270-284  the loop of _transform_and_checkpoint
RECURSIVE TransformLoop(_, _, _, _)
TransformLoop(evs, bucket_id, btype, acc) ==
    IF evs = <<>> THEN acc
    ELSE LET e == Head(evs)
             k == <<bucket_id, e.id>>
             t == transform_event(e, bucket_id, btype)
             next == IF is_duplicate(CacheGet(acc.cache, k), e.duration)
                     THEN [acc EXCEPT !.filtered = @ + 1]
                     ELSE IF t # <<>>
                     THEN [acc EXCEPT !.out = @ \o t,
                                      !.cache = CachePut(@, k, e.duration)]
                     ELSE [acc EXCEPT !.filtered = @ + 1]
         IN TransformLoop(Tail(evs), bucket_id, btype, next)

\* sync_engine.py:292  the checkpoint written after the loop: the newest timestamp
RECURSIVE newest_timestamp(_)
newest_timestamp(evs) ==
    IF Len(evs) = 1 THEN evs[1].timestamp
    ELSE Max(evs[1].timestamp, newest_timestamp(Tail(evs)))

\* sync_engine.py:258  _transform_and_checkpoint:
\* [out, cache, filtered] and the checkpoint to write
transform_and_checkpoint(evs, bucket_id, btype, cache) ==
    LET r == TransformLoop(evs, bucket_id, btype,
                           [out |-> <<>>, cache |-> cache, filtered |-> 0])
    IN [out |-> r.out, cache |-> CacheEvict(r.cache), filtered |-> r.filtered,
        checkpoint |-> IF evs # <<>> THEN newest_timestamp(evs) ELSE None]

\* sync_engine.py:541  batches = [events[i : i + batch_size] ...]
batch_count(evs) == (Len(evs) + BatchSize - 1) \div BatchSize
batch_at(evs, i) == SubSeq(evs, (i - 1) * BatchSize + 1, Min(i * BatchSize, Len(evs)))
\* batches[i:] flattened in order
batches_from(evs, i) == SubSeq(evs, (i - 1) * BatchSize + 1, Len(evs))

\* a backoff that never grows
backoff_delay_flat(n) == BACKOFF_BASE

\* sync_engine.py:605  _apply_queue_backoff: the delay after the n-th failure
backoff_delay(n) == Min(BACKOFF_BASE * Pow2(n - 1), BACKOFF_MAX)

\* sync_engine.py:672  _advance_checkpoints_to_now over the bucket ids collected
advance_checkpoints_to_now(cps, bucket_ids) ==
    IF bucket_ids = {} THEN cps
    ELSE [b \in DOMAIN cps |-> IF b \in bucket_ids THEN now ELSE cps[b]]

\* sync_engine.py:556  for remaining in batches[i:]: self.queue.enqueue(remaining)
RECURSIVE enqueue_batches(_, _, _, _, _)
enqueue_batches(rs, evs, i, nid, maxsz) ==
    IF i > batch_count(evs) THEN [rows |-> rs, next_row_id |-> nid]
    ELSE enqueue_batches(enqueue(rs, batch_at(evs, i), now, nid, maxsz), evs, i + 1,
                         nid + enqueue_count(batch_at(evs, i), maxsz), maxsz)

(***************************************************************************)
(* BetterFlowClient._request (bf_client.py) and retry_with_backoff         *)
(* (retry.py).  What one attempt does is named by the exception it raises, *)
(* or "ok"; the remote's answer is the HTTP status, a 200 whose body is    *)
(* not JSON, or no answer within the timeout.                              *)
(***************************************************************************)
Answers == {"200", "not_json", "401", "403", "422", "503", "timeout"}

NoError == ""
Errors == {"BetterFlowAuthError", "BetterFlowClientError", "_TransientError",
           "JSONDecodeError"}

\* bf_client.py:78-93  the instances of an exception class: BetterFlowAuthError
\* derives from BetterFlowClientError, everything derives from Exception
Instances(class) ==
    CASE class = "Exception" -> Errors
      [] class = "BetterFlowClientError" -> {"BetterFlowClientError", "BetterFlowAuthError"}
      [] OTHER -> {class}

\* except <classes> as e
is_instance(error, classes) == \E class \in classes : error \in Instances(class)

\* bf_client.py:188-216  do_request(): one attempt
do_request(answer) ==
    CASE answer \in {"401", "403"} -> "BetterFlowAuthError"
      [] answer = "503" -> "_TransientError"
      [] answer = "timeout" -> "_TransientError"
      [] answer = "422" -> "BetterFlowClientError"
      [] answer = "not_json" -> "JSONDecodeError"
      [] OTHER -> "ok"

\* what a call did: returned or raised error; calls = times func ran,
\* sleeps = times time.sleep ran, last_error = RetryExhausted.last_error
Returned(calls, sleeps) ==
    [error |-> NoError, last_error |-> NoError, calls |-> calls, sleeps |-> sleeps]
Raised(error, last_error, calls, sleeps) ==
    [error |-> error, last_error |-> last_error, calls |-> calls, sleeps |-> sleeps]

\* retry.py:90-117  the for loop of retry_with_backoff; outs[k] is what the
\* k-th call of func does
RECURSIVE RetryLoop(_, _, _, _, _, _, _)
RetryLoop(outs, max_retries, retryable, attempt, calls, sleeps, last_error) ==
    IF attempt >= max_retries + 1
    THEN Raised("RetryExhausted", last_error, calls, sleeps)
    ELSE LET out == outs[attempt + 1]
         IN IF out = "ok" THEN Returned(calls + 1, sleeps)
            ELSE IF ~is_instance(out, retryable)
            THEN Raised(out, NoError, calls + 1, sleeps)
            ELSE IF attempt >= max_retries
            THEN Raised("RetryExhausted", out, calls + 1, sleeps)
            ELSE RetryLoop(outs, max_retries, retryable, attempt + 1, calls + 1,
                           sleeps + 1, out)

\* retry_with_backoff keeping the error of its first failed attempt
retry_with_backoff_first_error(outs, max_retries, retryable) ==
    LET r == RetryLoop(outs, max_retries, retryable, 0, 0, 0, NoError)
    IN IF r.error = "RetryExhausted" THEN [r EXCEPT !.last_error = outs[1]] ELSE r

\* retry.py:64  retry_with_backoff(func, config, retryable_exceptions)
retry_with_backoff(outs, max_retries, retryable) ==
    RetryLoop(outs, max_retries, retryable, 0, 0, 0, NoError)

\* _request retrying the auth errors too
request_retryable_and_auth == {"_TransientError", "BetterFlowAuthError"}

\* bf_client.py:223  retryable_exceptions=(_TransientError,)
request_retryable == {"_TransientError"}

\* bf_client.py:218-234  _request(..., retry): answers[k] is the remote's answer
\* to the k-th attempt
request(answers, retry, max_retries) ==
    IF retry
    THEN LET r == retry_with_backoff([k \in 1..Len(answers) |-> do_request(answers[k])],
                                     max_retries, request_retryable)
         IN IF r.error = "RetryExhausted"
            THEN [r EXCEPT !.error = "BetterFlowClientError"]
            ELSE r
    ELSE LET out == do_request(answers[1])
         IN IF out = "ok" THEN Returned(1, 0)
            ELSE IF out = "_TransientError"
            THEN Raised("BetterFlowClientError", out, 1, 0)
            ELSE Raised(out, NoError, 1, 0)

\* the remote answering every attempt of a call alike
Repeat(answer, n) == [k \in 1..n |-> answer]

\* bf_client.py:363-390  send_events(events), events not empty: a SyncResult
\* that reports success or failure, or the exception it lets through
send_events(answer) ==
    LET r == request(Repeat(answer, HTTP_MAX_RETRIES + 1), TRUE, HTTP_MAX_RETRIES)
    IN IF r.error = NoError THEN "success"
       ELSE IF is_instance(r.error, {"BetterFlowAuthError", "BetterFlowClientError"})
       THEN "failure"
       ELSE "raise_other"

(***************************************************************************)
(* Initial states                                                          *)
(***************************************************************************)
\* locals of a sync() call; acked, hidden0 and touched only observe it:
\* acked = events of the send_events calls that reported success,
\* hidden0 = obs.hidden and row0 = next_row_id when the call began,
\* touched = collaborators it used,
\* sent = the events it handed to send_events so far, call after call
IdleCyc == [bucket_idx |-> 0, all_events |-> <<>>, batch_idx |-> 0, processed |-> 0,
            raised |-> FALSE, acked |-> {}, hidden0 |-> {}, row0 |-> 0,
            touched |-> {}, sent |-> <<>>]

\* an OfflineQueue whose capacity just holds the outgoing events of a cycle
\* (config.py:90 MAX_QUEUE_SIZE is 100000 against batch_size <= 1000 per bucket)
EngineQueueSize == MaxOutgoing

\* sync_engine.py:56  SyncEngine.__init__
EngineInit ==
    /\ paused = FALSE
    /\ private_mode = FALSE
    /\ private_start = None
    /\ heartbeat_count = 0
    /\ queue_consecutive_failures = 0
    /\ queue_backoff_until = 0
    /\ sent_cache = <<>>
    /\ pc = "idle"
    /\ cyc = IdleCyc
    /\ stats = EmptyStats

\* queue.py:41,77  OfflineQueue.__init__ on a fresh database
StoreInit(maxsz) ==
    /\ checkpoints = [b \in AllBuckets |-> None]
    /\ rows = <<>>
    /\ next_row_id = 1
    /\ max_size = maxsz

\* the tracker when the engine starts: no window event yet, the afk watcher's
\* event just opened
TrackerInit ==
    /\ now = 0
    /\ events = [b \in AllBuckets |->
                    IF b \in Range(AfkBuckets) THEN <<AfkOpen>> ELSE <<>>]

\* pause_since: when _paused last turned True; in_pause / in_private: keys of
\* the events recorded after the start of the open pause / private interval;
\* hidden: keys of the events recorded inside an interval that has ended
\* drain: the observation of the queue drain, kept when drain.on:
\* cycles = sync() cycles that sent from the queue, sends[id] = times row id
\* was handed to send_events by _process_queue, streak = failed drain sends
\* in a row, run_streak = those since the process started, fail_at = time of
\* the last of them
NoDrainObs == [on |-> FALSE, cycles |-> 0, sends |-> <<>>, streak |-> 0,
               run_streak |-> 0, fail_at |-> 0]
\* private: the observation of private time, kept when private.on:
\* p0 = time of the set_private_mode(True) that began the current interval,
\* sent = the events the last set_private_mode call handed to send_events,
\* total = the number of events handed over since p0
NoPrivateObs == [on |-> FALSE, p0 |-> None, sent |-> <<>>, total |-> 0]
ObsInit == obs = [pause_since |-> None, in_pause |-> {}, in_private |-> {},
                  hidden |-> {}, drain |-> NoDrainObs, private |-> NoPrivateObs]

Threads == {"sync", "tray"}
ThreadsInit ==
    /\ th = [t \in Threads |-> [pc |-> "idle", events |-> <<>>, current_size |-> 0]]
    /\ enq = [total |-> 0, calls |-> 0, overlapped |-> FALSE]

OneShotJobs == {"immediate_sync", "wake_sync", "unlock_sync", "network_sync"}
Jobs == {"sync_job"} \cup OneShotJobs
\* the threads that can run _do_sync: start()'s caller and one worker per job id
Runners == {"start"} \cup Jobs
SchedInit ==
    sched = [running |-> FALSE, pending |-> {},
             run |-> [r \in Runners |-> "idle"]]

\* no _request call under observation
NoRequest == [pc |-> "none"]
RequestInit == req = NoRequest
\* no component beside the sync engine under observation
NoComponent == [name |-> "none"]
ComponentInit == comp = NoComponent

Init ==
    /\ TrackerInit
    /\ StoreInit(EngineQueueSize)
    /\ EngineInit
    /\ ObsInit
    /\ ThreadsInit
    /\ SchedInit
    /\ ComponentInit
    /\ RequestInit

(***************************************************************************)
(* Environment of the engine: clock, tracker, process restart              *)
(***************************************************************************)
queueSide == <<th, enq, sched, req, comp>>
\* what a step of a component beside the sync engine leaves alone
engineSide == <<now, events, storeVars, engineVars, cycleVars, obs, th, enq, sched, req>>

\* the afk watcher's heartbeat: its open event lasts until the time t
afk_extended(es, t) ==
    [i \in 1..Len(es) |->
        IF i = Len(es) THEN [es[i] EXCEPT !.duration = t - es[i].timestamp]
        ELSE es[i]]

\* the clock moves on; the afk watcher extends its open event
Tick ==
    /\ now + ClockStep <= MaxTime
    /\ now' = now + ClockStep
    /\ events' = [b \in AllBuckets |->
                    IF b \in Range(AfkBuckets) THEN afk_extended(events[b], now')
                    ELSE events[b]]
    /\ UNCHANGED <<storeVars, engineVars, cycleVars, obs, queueSide>>

\* the window watcher opens a new event at the current time
Record(b, d) ==
    /\ Len(events[b]) < MaxEvents
    /\ events[b] # <<>> => events[b][Len(events[b])].timestamp < now
    /\ events' = [events EXCEPT ![b] =
            Append(@, [id |-> Len(@) + 1, timestamp |-> now, duration |-> 0,
                       app |-> d.app, status |-> d.status])]
    /\ LET k == <<b, Len(events[b]) + 1>>
       IN obs' = [obs EXCEPT
                    !.in_pause = IF paused /\ obs.pause_since # None
                                    /\ now > obs.pause_since
                                 THEN @ \cup {k} ELSE @,
                    !.in_private = IF private_mode /\ private_start # None
                                      /\ now > private_start
                                   THEN @ \cup {k} ELSE @]
    /\ UNCHANGED <<now, storeVars, engineVars, cycleVars, queueSide>>

\* the watcher's heartbeat: the open event of the bucket has lasted one short
\* pulse, or lasts until the current reading of the clock
Extend(b, dur) ==
    /\ events[b] # <<>>
    /\ LET last == events[b][Len(events[b])]
       IN /\ dur \in {MIN_DURATION, now - last.timestamp}
          /\ dur > last.duration
          /\ events' = [events EXCEPT ![b][Len(events[b])].duration = dur]
    /\ UNCHANGED <<now, storeVars, engineVars, cycleVars, obs, queueSide>>

\* the process dies and starts again: memory is lost, offline_queue.db is kept
Restart ==
    /\ paused' = FALSE
    /\ private_mode' = FALSE
    /\ private_start' = None
    /\ heartbeat_count' = 0
    /\ queue_consecutive_failures' = 0
    /\ queue_backoff_until' = 0
    /\ sent_cache' = <<>>
    /\ pc' = "idle"
    /\ cyc' = IdleCyc
    /\ stats' = EmptyStats
    /\ obs' = [obs EXCEPT !.pause_since = None, !.in_pause = {}, !.in_private = {},
                          !.drain.run_streak = 0]
    /\ UNCHANGED <<now, events, storeVars, queueSide>>

(***************************************************************************)
(* SyncEngine: the calls made from the callback threads                    *)
(***************************************************************************)
\* sync_engine.py:680-690  the bucket ids _advance_checkpoints_to_now reads
\* from the tracker: every bucket, or none when the listings raise
listed_buckets(listed) == IF listed THEN AllBuckets ELSE {}

\* sync_engine.py:89  pause(); listed = the tracker listed its buckets
Pause(listed) ==
    /\ checkpoints' = IF ~paused
                      THEN advance_checkpoints_to_now(checkpoints, listed_buckets(listed))
                      ELSE checkpoints
    /\ paused' = TRUE
    /\ obs' = IF ~paused THEN [obs EXCEPT !.pause_since = now] ELSE obs
    /\ UNCHANGED <<now, events, rows, next_row_id, max_size, private_mode,
                   private_start, heartbeat_count, queue_consecutive_failures,
                   queue_backoff_until, sent_cache, cycleVars, queueSide>>

\* sync_engine.py:101  resume()
Resume ==
    /\ paused' = FALSE
    /\ obs' = [obs EXCEPT !.pause_since = None, !.in_pause = {},
                          !.hidden = @ \cup obs.in_pause]
    /\ UNCHANGED <<now, events, storeVars, private_mode, private_start,
                   heartbeat_count, queue_consecutive_failures, queue_backoff_until,
                   sent_cache, cycleVars, queueSide>>

\* the outcomes of BFClientProtocol.send_events its callers provide for: a
\* result (success or not), one of the two client errors the protocol names,
\* or any other exception (bf_client.py:202 response.json() on a body that is
\* not JSON, a requests exception do_request does not catch).
\* BetterFlowClient.send_events turns both client errors into a result that
\* reports failure, so of the raising outcomes it yields "raise_other" alone.
SendOutcomes == {"success", "failure", "raise_auth", "raise_client", "raise_other"}

\* the timestamp is the time the call was made
private_time_event_at_end(start, duration) ==
    [id |-> None, timestamp |-> start + duration, duration |-> duration, bucket_id |-> "",
     bucket_type |-> "private_time", app |-> NoApp, status |-> "private"]

\* sync_engine.py:522  the private_time event
private_time_event(start, duration) ==
    [id |-> None, timestamp |-> start, duration |-> duration, bucket_id |-> "",
     bucket_type |-> "private_time", app |-> NoApp, status |-> "private"]

\* sync_engine.py:514-532  _send_private_time_event: the events it hands to
\* bf.send_events
private_time_sent ==
    LET duration == now - private_start
    IN IF private_start = None \/ duration < MIN_PRIVATE_DURATION THEN <<>>
       ELSE <<private_time_event(private_start, duration)>>

\* the observation of a set_private_mode(enabled) call that sent these events
private_observed(o, enabled, sent) ==
    IF ~o.on THEN o
    ELSE [o EXCEPT !.p0 = IF enabled /\ ~private_mode THEN now ELSE @,
                   !.sent = sent,
                   !.total = IF enabled /\ ~private_mode THEN 0 ELSE @ + Len(sent)]

\* sync_engine.py:514  _send_private_time_event: the events it enqueues
private_time_enqueued(outcome) ==
    LET duration == now - private_start
    IN IF private_start = None \/ duration < MIN_PRIVATE_DURATION THEN <<>>
       ELSE IF outcome \in {"raise_auth", "raise_client"}
       THEN <<private_time_event(private_start, duration)>>
       ELSE <<>>

\* sync_engine.py:109  set_private_mode(enabled)
SetPrivateMode(enabled, listed, answer) ==
    LET outcome == send_events(answer)
        turn_on == enabled /\ ~private_mode
        turn_off == ~enabled /\ private_mode /\ private_start # None
        queued == IF turn_off THEN private_time_enqueued(outcome) ELSE <<>>
        sent == IF turn_off THEN private_time_sent ELSE <<>>
    IN IF turn_off /\ outcome = "raise_other" /\ sent # <<>>
       THEN /\ obs' = [obs EXCEPT !.private = private_observed(@, enabled, sent)]
            /\ UNCHANGED <<now, events, storeVars, engineVars, cycleVars, queueSide>>
       ELSE
       /\ checkpoints' = IF turn_on
                         THEN advance_checkpoints_to_now(checkpoints, listed_buckets(listed))
                         ELSE checkpoints
       /\ private_start' = IF turn_on THEN now
                           ELSE IF turn_off THEN None ELSE private_start
       /\ rows' = enqueue(rows, queued, now, next_row_id, max_size)
       /\ next_row_id' = next_row_id + enqueue_count(queued, max_size)
       /\ private_mode' = enabled
       /\ obs' = IF ~enabled
                 THEN [obs EXCEPT !.in_private = {}, !.hidden = @ \cup obs.in_private,
                                  !.private = private_observed(@, enabled, sent)]
                 ELSE [obs EXCEPT !.private = private_observed(@, enabled, sent)]
       /\ UNCHANGED <<now, events, max_size, paused, heartbeat_count,
                      queue_consecutive_failures, queue_backoff_until, sent_cache,
                      cycleVars, queueSide>>

(***************************************************************************)
(* SyncEngine.sync(), one action per step between two calls to a           *)
(* collaborator's state; pc is the position of the call in flight          *)
(***************************************************************************)
BucketOrder == WindowBuckets \o WebBuckets \o AfkBuckets \o InputBuckets

\* the entry check looking at _paused alone
sync_skipped_paused_only(p, pm) == p

\* sync_engine.py:157  if self._paused or self._private_mode: return stats
sync_skipped(p, pm) == p \/ pm

\* sync_engine.py:155-185  entry: the paused/private check, the tracker check
\* and the bucket listing (the first config fetch and the session start change
\* no state kept here).  running = aw.is_running(), listed = the four bucket
\* listings succeeded
SyncBegin(running, listed) ==
    /\ pc = "idle"
    /\ IF sync_skipped(paused, private_mode)
       THEN /\ pc' = "done"
            /\ stats' = EmptyStats
            /\ cyc' = IdleCyc
       ELSE /\ stats' = IF running /\ listed THEN EmptyStats
                        ELSE [EmptyStats EXCEPT !.errors = 1]
            /\ pc' = IF running /\ listed THEN "buckets" ELSE "done"
            /\ cyc' = [IdleCyc EXCEPT !.bucket_idx = 1,
                                      !.hidden0 = obs.hidden,
                                      !.row0 = next_row_id,
                                      !.touched = {"aw"}]
    /\ UNCHANGED <<now, events, storeVars, engineVars, obs, queueSide>>

\* where sync() goes after the last bucket
after_buckets(all) == IF all # <<>> THEN "send" ELSE "queue"

\* sync_engine.py:189-217  one bucket: fetch, (window: afk fetch and gap fill,)
\* transform, dedup and checkpoint.  fetch_ok / afk_ok = the tracker answered
SyncBucket(fetch_ok, afk_ok) ==
    /\ pc = "buckets"
    /\ LET b == BucketOrder[cyc.bucket_idx]
           raw == fetch_bucket_events(b)
           afk == IF afk_ok
                  THEN get_afk_events_for_range(raw[1].timestamp,
                            raw[Len(raw)].timestamp + raw[Len(raw)].duration)
                  ELSE <<>>
           is_window == b \in Range(WindowBuckets)
           evs == IF is_window /\ raw # <<>> THEN fill_window_gaps(raw, afk) ELSE raw
           filled == IF is_window /\ raw # <<>> THEN gaps_filled(raw, afk) ELSE 0
           r == transform_and_checkpoint(evs, b, bucket_type(b), sent_cache)
           all == IF fetch_ok THEN cyc.all_events \o r.out ELSE cyc.all_events
           last == cyc.bucket_idx = Len(BucketOrder)
       IN /\ IF fetch_ok
             THEN /\ sent_cache' = r.cache
                  /\ checkpoints' = IF r.checkpoint # None
                                    THEN [checkpoints EXCEPT ![b] = r.checkpoint]
                                    ELSE checkpoints
                  /\ stats' = [stats EXCEPT
                                 !.events_fetched = @ + Len(raw),
                                 !.events_filtered = @ + r.filtered,
                                 !.gaps_filled = @ + filled,
                                 !.buckets_synced = @ + 1]
             ELSE /\ stats' = [stats EXCEPT !.errors = @ + 1]
                  /\ UNCHANGED <<sent_cache, checkpoints>>
          /\ cyc' = [cyc EXCEPT
                       !.all_events = all,
                       !.bucket_idx = IF last THEN 0 ELSE @ + 1,
                       !.batch_idx = IF last /\ all # <<>> THEN 1 ELSE 0,
                       !.touched = @ \cup
                          (IF fetch_ok /\ r.checkpoint # None THEN {"checkpoint"} ELSE {})]
          /\ pc' = IF last THEN after_buckets(all) ELSE "buckets"
    /\ UNCHANGED <<now, events, rows, next_row_id, max_size, paused, private_mode,
                   private_start, heartbeat_count, queue_consecutive_failures,
                   queue_backoff_until, obs, queueSide>>

\* sync_engine.py:537  _send_events: the sub-batch at cyc.batch_idx
\* (events_synced of a successful answer is taken to be the batch's length)
SyncSend(answer) ==
    /\ pc = "send"
    /\ LET outcome == send_events(answer)
           i == cyc.batch_idx
           batch == batch_at(cyc.all_events, i)
           last == i = batch_count(cyc.all_events)
           rest == enqueue_batches(rows, cyc.all_events, i, next_row_id, max_size)
       IN CASE outcome = "success" ->
                 /\ stats' = [stats EXCEPT !.events_sent = @ + Len(batch)]
                 /\ cyc' = [cyc EXCEPT !.acked = @ \cup Range(batch),
                                       !.batch_idx = IF last THEN 0 ELSE i + 1,
                                       !.touched = @ \cup {"bf"},
                                       !.sent = @ \o batch]
                 /\ pc' = IF last THEN "queue" ELSE "send"
                 /\ UNCHANGED <<rows, next_row_id>>
            [] outcome = "raise_auth" ->
                 /\ rows' = rest.rows
                 /\ next_row_id' = rest.next_row_id
                 /\ stats' = [stats EXCEPT
                                !.events_queued = @ + Len(batches_from(cyc.all_events, i)),
                                !.errors = @ + 1]
                 /\ cyc' = [cyc EXCEPT !.raised = TRUE, !.batch_idx = 0,
                                       !.touched = @ \cup {"bf", "queue"},
                                       !.sent = @ \o batch]
                 /\ pc' = "done"
            [] outcome = "raise_other" ->
                 /\ cyc' = [cyc EXCEPT !.raised = TRUE, !.batch_idx = 0,
                                       !.touched = @ \cup {"bf"},
                                       !.sent = @ \o batch]
                 /\ pc' = "done"
                 /\ UNCHANGED <<rows, next_row_id, stats>>
            [] OTHER ->
                 /\ rows' = enqueue(rows, batch, now, next_row_id, max_size)
                 /\ next_row_id' = next_row_id + enqueue_count(batch, max_size)
                 /\ stats' = [stats EXCEPT
                                !.events_queued = @ + Len(batch),
                                !.errors = IF outcome = "failure" THEN @ + 1 ELSE @]
                 /\ cyc' = [cyc EXCEPT !.batch_idx = IF last THEN 0 ELSE i + 1,
                                       !.touched = @ \cup {"bf", "queue"},
                                       !.sent = @ \o batch]
                 /\ pc' = IF last THEN "queue" ELSE "send"
    /\ UNCHANGED <<now, events, checkpoints, max_size, engineVars, obs, queueSide>>

\* sync_engine.py:224 and 566-579  the queue step: is the remote reachable and
\* the queue not empty; then remove_failed and the backoff check
SyncQueue(reach) ==
    /\ pc = "queue"
    /\ IF reach /\ ~is_empty(rows)
       THEN /\ rows' = remove_failed(rows, MAX_RETRIES)
            /\ pc' = IF now < queue_backoff_until THEN "heartbeat" ELSE "drain"
            /\ cyc' = [cyc EXCEPT !.processed = 0, !.touched = @ \cup {"bf", "queue"}]
       ELSE /\ pc' = "heartbeat"
            /\ cyc' = [cyc EXCEPT !.touched = @ \cup {"bf"}]
            /\ UNCHANGED rows
    /\ UNCHANGED <<now, events, checkpoints, next_row_id, max_size, engineVars,
                   stats, obs, queueSide>>

\* the observation of a drain send of the rows ids with this outcome, first
\* = it is the cycle's first
drain_observed(d, ids, outcome, first) ==
    IF ~d.on THEN d
    ELSE [d EXCEPT !.cycles = IF first THEN @ + 1 ELSE @,
                   !.sends = [id \in DOMAIN @ |-> IF id \in ids THEN @[id] + 1 ELSE @[id]],
                   !.streak = IF outcome = "success" THEN 0
                              ELSE IF outcome = "raise_other" THEN @ ELSE @ + 1,
                   !.run_streak = IF outcome = "success" THEN 0
                                  ELSE IF outcome = "raise_other" THEN @ ELSE @ + 1,
                   !.fail_at = IF outcome \in {"success", "raise_other"} THEN @ ELSE now]

\* sync_engine.py:581  while processed < max_per_cycle: queued = dequeue(batch_size)
\* - the batch the next turn of the loop sends, <<>> when the loop ends
drain_batch(rs, processed) ==
    IF processed < BatchSize * MAX_BATCHES_PER_CYCLE THEN dequeue(rs, BatchSize) ELSE <<>>

\* sync_engine.py:581-603  one turn of the while loop of _process_queue
SyncDrain(answer) ==
    /\ pc = "drain"
    /\ LET outcome == send_events(answer)
           queued == drain_batch(rows, cyc.processed)
           ids == {q.id : q \in Range(queued)}
           sent == [k \in 1..Len(queued) |-> queued[k].event_data]
           n == queue_consecutive_failures + 1
       IN IF queued = <<>>
          THEN /\ pc' = "heartbeat"
               /\ UNCHANGED <<rows, stats, cyc, queue_consecutive_failures,
                              queue_backoff_until, obs>>
          ELSE /\ obs' = [obs EXCEPT !.drain = drain_observed(@, ids, outcome, cyc.processed = 0)]
               /\ IF outcome = "raise_other"
                  THEN /\ pc' = "done"
                       /\ cyc' = [cyc EXCEPT !.sent = @ \o sent]
                       /\ UNCHANGED <<rows, stats, queue_consecutive_failures,
                                      queue_backoff_until>>
                  ELSE IF outcome = "success"
                  THEN /\ rows' = remove(rows, ids)
                       /\ stats' = [stats EXCEPT !.events_sent = @ + Len(queued)]
                       /\ cyc' = [cyc EXCEPT !.processed = @ + Len(queued),
                                             !.sent = @ \o sent]
                       /\ queue_consecutive_failures' = 0
                       /\ pc' = "drain"
                       /\ UNCHANGED queue_backoff_until
                  ELSE /\ rows' = increment_retry(rows, ids)
                       /\ queue_consecutive_failures' = n
                       /\ queue_backoff_until' = now + backoff_delay(n)
                       /\ pc' = "heartbeat"
                       /\ cyc' = [cyc EXCEPT !.sent = @ \o sent]
                       /\ UNCHANGED stats
    /\ UNCHANGED <<now, events, checkpoints, next_row_id, max_size, paused,
                   private_mode, private_start, heartbeat_count, sent_cache,
                   queueSide>>

\* the answers of bf.heartbeat(): an error, or the commands of the response
HeartbeatOutcomes == {"error", "none", "pause", "deregister"}

\* sync_engine.py:227-233 and 613-643  the periodic heartbeat and its commands,
\* then return stats; listed = the tracker listed its buckets
SyncHeartbeat(hb, listed) ==
    /\ pc = "heartbeat"
    /\ LET due == heartbeat_count + 1 >= HEARTBEAT_INTERVAL
           stop == due /\ hb \in {"pause", "deregister"}
       IN /\ heartbeat_count' = IF due THEN 0 ELSE heartbeat_count + 1
          /\ checkpoints' = IF stop
                            THEN advance_checkpoints_to_now(checkpoints, listed_buckets(listed))
                            ELSE checkpoints
          /\ paused' = IF stop THEN TRUE ELSE paused
          /\ obs' = IF stop /\ ~paused THEN [obs EXCEPT !.pause_since = now] ELSE obs
    /\ pc' = "idle"
    /\ cyc' = IdleCyc
    /\ stats' = EmptyStats
    /\ UNCHANGED <<now, events, rows, next_row_id, max_size, private_mode,
                   private_start, queue_consecutive_failures, queue_backoff_until,
                   sent_cache, queueSide>>

\* main.py:206-251  sync() has returned early (skipped, tracker down) or raised
\* into _do_sync, which reads the stats and ends
SyncReturn ==
    /\ pc = "done"
    /\ pc' = "idle"
    /\ cyc' = IdleCyc
    /\ stats' = EmptyStats
    /\ UNCHANGED <<now, events, storeVars, engineVars, obs, queueSide>>

\* the engine has not yet written MaxQueued rows plus n to offline_queue.db
QueueRoom(n) == next_row_id + n - 1 <= MaxQueued

\* Spec: the tracker, the clock, the callback threads and the sync cycle, with
\* a remote that answers (the queue stays empty, so _process_queue has nothing
\* to drain); SpecSend below follows the cycle against a failing remote.
\* A cycle is short against a clock step: the clock and the watchers move
\* between two cycles, the callbacks and a restart also in the middle of one
Next ==
    \/ pc = "idle" /\ Tick
    \/ \E b \in Range(WindowBuckets) : \E d \in BucketData :
         pc = "idle" /\ Record(b, d)
    \/ \E b \in Range(WindowBuckets) : \E dur \in 1..MaxTime :
         pc = "idle" /\ Extend(b, dur)
    \/ Restart
    \/ \E listed \in BOOLEAN : Pause(listed)
    \/ Resume
    \/ \E enabled \in BOOLEAN : \E listed \in BOOLEAN :
         SetPrivateMode(enabled, listed, "200")
    \/ \E running \in BOOLEAN : \E listed \in BOOLEAN : SyncBegin(running, listed)
    \/ \E fetch_ok \in BOOLEAN : \E afk_ok \in BOOLEAN : SyncBucket(fetch_ok, afk_ok)
    \/ SyncSend("200")
    \/ \E reach \in BOOLEAN : SyncQueue(reach)
    \/ \E hb \in HeartbeatOutcomes : \E listed \in BOOLEAN : SyncHeartbeat(hb, listed)
    \/ SyncReturn

Spec == Init /\ [][Next]_vars

(***************************************************************************)
(* SpecSend: sync cycles against a remote that may fail, over a tracker    *)
(* that already holds its events                                           *)
(***************************************************************************)
\* what the window watcher has recorded when the engine starts: nothing, one
\* event, or two events of one app a clock step apart
SendWindows ==
    LET e1(d) == [id |-> 1, timestamp |-> 0, duration |-> d, app |-> "Editor",
                  status |-> NoStatus]
        e2(d) == [id |-> 2, timestamp |-> ClockStep, duration |-> d,
                  app |-> "Editor", status |-> NoStatus]
    IN {<<>>}
       \cup {<<e1(d)>> : d \in {MIN_DURATION, ClockStep}}
       \cup {<<e1(d), e2(MIN_DURATION)>> : d \in {MIN_DURATION, ClockStep}}

InitSend ==
    /\ now = ClockStep
    /\ \E w \in SendWindows :
         events = [b \in AllBuckets |->
                     IF b \in Range(AfkBuckets) THEN afk_extended(<<AfkOpen>>, ClockStep)
                     ELSE w]
    /\ StoreInit(EngineQueueSize)
    /\ EngineInit
    /\ ObsInit
    /\ ThreadsInit
    /\ SchedInit
    /\ ComponentInit
    /\ RequestInit

NextSend ==
    \/ pc = "idle" /\ Restart
    \/ SyncBegin(TRUE, TRUE)
    \/ SyncBucket(TRUE, TRUE)
    \/ \E answer \in Answers :
         /\ pc = "send"
         /\ send_events(answer) # "success" =>
                QueueRoom(Len(batches_from(cyc.all_events, cyc.batch_idx)))
         /\ SyncSend(answer)
    \/ \E reach \in BOOLEAN : SyncQueue(reach)
    \/ \E answer \in Answers : SyncDrain(answer)
    \/ \E hb \in HeartbeatOutcomes : \E listed \in BOOLEAN : SyncHeartbeat(hb, listed)
    \/ SyncReturn

SpecSend == InitSend /\ [][NextSend]_vars

(***************************************************************************)
(* SpecQueue: OfflineQueue.enqueue called from the sync thread and from    *)
(* the tray thread (private-mode toggle).  Each thread has its own SQLite  *)
(* connection and every statement of enqueue is its own transaction, so a  *)
(* call is three steps: size(), _remove_oldest(), INSERT                   *)
(***************************************************************************)
InitQueue ==
    /\ TrackerInit
    /\ \E m \in 1..MaxQueueSize : StoreInit(m)
    /\ EngineInit
    /\ ObsInit
    /\ ThreadsInit
    /\ SchedInit
    /\ ComponentInit
    /\ RequestInit

\* the payloads first..last
Labels(first, last) == [i \in 1..(last - first + 1) |-> first + i - 1]

\* queue.py:119-128  enqueue(events) with n = len(events): the truncation to
\* max_size and the read of size()
EnqBegin(t, n) ==
    /\ th[t].pc = "idle"
    /\ enq.total + n <= MaxEnqueued
    /\ LET kept == truncate_batch(Labels(enq.total + 1, enq.total + n), max_size)
       IN th' = [th EXCEPT ![t] = [pc |-> "sized", events |-> kept,
                                   current_size |-> size(rows)]]
    /\ enq' = [total |-> enq.total + n,
               calls |-> enq.calls + 1,
               overlapped |-> enq.overlapped \/ \E u \in Threads \ {t} : th[u].pc # "idle"]
    /\ UNCHANGED <<now, events, storeVars, engineVars, cycleVars, obs, sched, req, comp>>

\* queue.py:129-133  make room: _remove_oldest(to_remove) when the size read
\* plus the batch exceeds max_size
EnqEvict(t) ==
    /\ th[t].pc = "sized"
    /\ rows' = remove_oldest(rows, overflow(th[t].current_size, Len(th[t].events),
                                            max_size))
    /\ th' = [th EXCEPT ![t].pc = "insert"]
    /\ UNCHANGED <<now, events, checkpoints, next_row_id, max_size, engineVars,
                   cycleVars, obs, enq, sched, req, comp>>

\* queue.py:135-144  read the wall clock and INSERT the batch
EnqInsert(t) ==
    /\ th[t].pc = "insert"
    /\ rows' = insert_rows(rows, th[t].events, now, next_row_id)
    /\ next_row_id' = next_row_id + Len(th[t].events)
    /\ th' = [th EXCEPT ![t] = [pc |-> "idle", events |-> <<>>, current_size |-> 0]]
    /\ UNCHANGED <<now, events, checkpoints, max_size, engineVars, cycleVars, obs,
                   enq, sched, req, comp>>

\* datetime.now() is the wall clock: the system (time sync, the user) sets it back
ClockSetBack ==
    /\ now - ClockStep >= 0
    /\ now' = now - ClockStep
    /\ UNCHANGED <<events, storeVars, engineVars, cycleVars, obs, queueSide>>

NextQueue ==
    \/ Tick
    \/ ClockSetBack
    \/ \E t \in Threads : \E n \in 1..2 : EnqBegin(t, n)
    \/ \E t \in Threads : EnqEvict(t)
    \/ \E t \in Threads : EnqInsert(t)

SpecQueue == InitQueue /\ [][NextQueue]_vars

(***************************************************************************)
(* SpecSched: SyncCoordinator and the BackgroundScheduler (APScheduler,    *)
(* third party: a thread pool; per job id at most one running instance).   *)
(* run[r] = "sync" while runner r is inside _do_sync                       *)
(***************************************************************************)
\* main.py:91  start(): the initial _do_sync() runs in the caller's thread
\* (app start, _on_login, the relogin thread), before the scheduler starts
CoordStart ==
    /\ ~sched.running
    /\ sched.run["start"] = "idle"
    /\ sched' = [sched EXCEPT !.run["start"] = "sync"]
    /\ UNCHANGED <<now, events, storeVars, engineVars, cycleVars, obs, th, enq, req, comp>>

\* main.py:93-141  the initial sync is over: add the jobs, scheduler.start()
CoordStarted ==
    /\ sched.run["start"] = "sync"
    /\ sched' = [sched EXCEPT !.run["start"] = "idle", !.running = TRUE]
    /\ UNCHANGED <<now, events, storeVars, engineVars, cycleVars, obs, th, enq, req, comp>>

\* main.py:143  stop(): shutdown(wait=False) drops the pending jobs and lets
\* the running ones finish
CoordStop ==
    /\ sched.running
    /\ sched' = [sched EXCEPT !.running = FALSE, !.pending = {}]
    /\ UNCHANGED <<now, events, storeVars, engineVars, cycleVars, obs, th, enq, req, comp>>

\* main.py:156  trigger_sync(job_id): add_job(..., replace_existing=True)
trigger_sync(job_id) ==
    /\ sched.running
    /\ sched' = [sched EXCEPT !.pending = @ \cup {job_id}]
    /\ UNCHANGED <<now, events, storeVars, engineVars, cycleVars, obs, th, enq, req, comp>>

\* the scheduler submits a due job to a pool thread unless an instance of the
\* same job id is still running (max_instances = 1)
JobRun(job) ==
    /\ sched.running
    /\ job = "sync_job" \/ job \in sched.pending
    /\ sched.run[job] = "idle"
    /\ sched' = [sched EXCEPT !.run[job] = "sync", !.pending = @ \ {job}]
    /\ UNCHANGED <<now, events, storeVars, engineVars, cycleVars, obs, th, enq, req, comp>>

\* main.py:184  _do_sync returns in the job's thread
JobDone(job) ==
    /\ sched.run[job] = "sync"
    /\ sched' = [sched EXCEPT !.run[job] = "idle"]
    /\ UNCHANGED <<now, events, storeVars, engineVars, cycleVars, obs, th, enq, req, comp>>

NextSched ==
    \/ CoordStart
    \/ CoordStarted
    \/ CoordStop
    \/ \E job \in OneShotJobs : trigger_sync(job)
    \/ \E job \in Jobs : JobRun(job)
    \/ \E job \in Jobs : JobDone(job)

SpecSched == Init /\ [][NextSched]_vars

(***************************************************************************)
(* SpecRetry: one call of _request and one call of retry_with_backoff,     *)
(* over every run of answers and every retry policy within the bounds      *)
(***************************************************************************)
\* retryable_exceptions a caller may pass: the default (Exception,), the one
\* _request passes, and a class with a subclass
RetryableSets == {{"Exception"}, request_retryable, {"BetterFlowClientError"}}

InitRetry ==
    /\ TrackerInit
    /\ StoreInit(EngineQueueSize)
    /\ EngineInit
    /\ ObsInit
    /\ ThreadsInit
    /\ SchedInit
    /\ ComponentInit
    /\ \E answers \in [1..(MaxRetries + 1) -> Answers] :
       \E max_retries \in 0..MaxRetries :
       \E retry \in BOOLEAN :
       \E retryable \in RetryableSets :
         req = [pc |-> "ready", answers |-> answers, max_retries |-> max_retries,
                retry |-> retry, retryable |-> retryable, out |-> Returned(0, 0)]

\* bf_client.py:148  self._request(method, endpoint, retry=req.retry)
RequestCall ==
    /\ req.pc = "ready"
    /\ req' = [req EXCEPT !.pc = "request",
                          !.out = request(req.answers, req.retry, req.max_retries)]
    /\ UNCHANGED <<now, events, storeVars, engineVars, cycleVars, obs, th, enq, sched, comp>>

\* retry.py:64  retry_with_backoff(func, config, retryable_exceptions=req.retryable)
\* where the k-th call of func does do_request(req.answers[k])
RetryCall ==
    /\ req.pc = "ready"
    /\ req' = [req EXCEPT !.pc = "retry",
                          !.out = retry_with_backoff(
                                      [k \in 1..Len(req.answers) |-> do_request(req.answers[k])],
                                      req.max_retries, req.retryable)]
    /\ UNCHANGED <<now, events, storeVars, engineVars, cycleVars, obs, th, enq, sched, comp>>

NextRetry ==
    \/ RequestCall
    \/ RetryCall

SpecRetry == InitRetry /\ [][NextRetry]_vars

(***************************************************************************)
(* SpecDrain: sync cycles that drain a queue left by earlier failed        *)
(* uploads, a sync interval apart or closer (the immediate, wake, unlock   *)
(* and network syncs of main.py run between two interval syncs), across    *)
(* restarts, against a remote that may fail; the tracker holds no event    *)
(***************************************************************************)
\* the k-th event an earlier cycle queued
QueuedBefore(k) ==
    [id |-> k, timestamp |-> k - 1, duration |-> MIN_DURATION,
     bucket_id |-> WindowBuckets[1], bucket_type |-> bucket_type(WindowBuckets[1]),
     app |-> "Editor", status |-> NoStatus]

InitDrain ==
    /\ now = 0
    /\ events = [b \in AllBuckets |-> <<>>]
    /\ checkpoints = [b \in AllBuckets |-> None]
    /\ \E n \in 1..MaxDrainRows :
         /\ rows = insert_rows(<<>>, [k \in 1..n |-> QueuedBefore(k)], 0, 1)
         /\ next_row_id = n + 1
    /\ max_size = MaxDrainRows
    /\ EngineInit
    /\ obs = [pause_since |-> None, in_pause |-> {}, in_private |-> {}, hidden |-> {},
              private |-> NoPrivateObs,
              drain |-> [on |-> TRUE, cycles |-> 0,
                         sends |-> [id \in 1..MaxDrainRows |-> 0],
                         streak |-> 0, run_streak |-> 0, fail_at |-> 0]]
    /\ ThreadsInit
    /\ SchedInit
    /\ ComponentInit
    /\ RequestInit

\* config.py:76  a sync interval (60 s) passes between two cycles
DrainTick ==
    /\ pc = "idle"
    /\ now + BACKOFF_BASE <= MaxDrainSteps * BACKOFF_BASE
    /\ now' = now + BACKOFF_BASE
    /\ UNCHANGED <<events, storeVars, engineVars, cycleVars, obs, queueSide>>

NextDrain ==
    \/ DrainTick
    \/ pc = "idle" /\ Restart
    \/ SyncBegin(TRUE, TRUE)
    \/ SyncBucket(TRUE, TRUE)
    \/ \E reach \in BOOLEAN : SyncQueue(reach)
    \/ \E answer \in Answers :
         /\ obs.drain.cycles < MaxDrainCycles \/ cyc.processed > 0
         /\ SyncDrain(answer)
    \/ SyncHeartbeat("none", TRUE)
    \/ SyncReturn

SpecDrain == InitDrain /\ [][NextDrain]_vars

(***************************************************************************)
(* SpecPrivate: the tray toggles private time while the clock runs in      *)
(* steps of one tick, across restarts, against a remote that may fail      *)
(***************************************************************************)
InitPrivate ==
    /\ TrackerInit
    /\ StoreInit(EngineQueueSize)
    /\ EngineInit
    /\ obs = [pause_since |-> None, in_pause |-> {}, in_private |-> {}, hidden |-> {},
              drain |-> NoDrainObs,
              private |-> [on |-> TRUE, p0 |-> None, sent |-> <<>>, total |-> 0]]
    /\ ThreadsInit
    /\ SchedInit
    /\ ComponentInit
    /\ RequestInit

\* half a second passes
PrivateTick ==
    /\ now < MaxPrivateTime
    /\ now' = now + 1
    /\ UNCHANGED <<events, storeVars, engineVars, cycleVars, obs, queueSide>>

NextPrivate ==
    \/ PrivateTick
    \/ Restart
    \/ \E enabled \in BOOLEAN : \E listed \in BOOLEAN : \E answer \in Answers :
         /\ obs.private.total < MaxPrivateSends
         /\ SetPrivateMode(enabled, listed, answer)

SpecPrivate == InitPrivate /\ [][NextPrivate]_vars

(***************************************************************************)
(* SpecGap: _fill_window_gaps applied to the window events and the afk     *)
(* events one watcher of each kind has recorded                            *)
(***************************************************************************)
\* timestamps of the second window event: the first ends at 1, so the gaps
\* are 1.5 s, 2 s, 300 s and 300.5 s
GapSecondStarts == {4, 5, 601, 602}
\* gaps after the second window event, when a third follows: none, 2 s
GapThirdGaps == {0, 4}
\* the times at which the afk watcher's events begin and end
AfkCuts == {0, 1, 3, 5, 601, 610}

\* one, two or three window events, oldest first
GapWindows ==
    LET e(k, t, a) == [id |-> k, timestamp |-> t, duration |-> 1, app |-> a,
                       status |-> NoStatus]
    IN {<<e(1, 0, a1)>> : a1 \in Apps}
       \cup {<<e(1, 0, a1), e(2, t2, a2)>> :
                 a1 \in Apps, a2 \in Apps, t2 \in GapSecondStarts}
       \cup {<<e(1, 0, a1), e(2, t2, a2), e(3, t2 + 1 + g, a2)>> :
                 a1 \in Apps, a2 \in Apps, t2 \in GapSecondStarts, g \in GapThirdGaps}

\* what one afk watcher has recorded: nothing, one event, or two events of
\* which the second begins when or after the first ends
GapAfk ==
    LET a(k, from, to, st) == [id |-> k, timestamp |-> from, duration |-> to - from,
                               app |-> NoApp, status |-> st]
        Statuses == {"afk", "not-afk"}
    IN {<<>>}
       \cup {<<a(1, 0, c1, s1)>> : c1 \in AfkCuts \ {0}, s1 \in Statuses}
       \cup UNION {{<<a(1, 0, c1, s1), a(2, c2, c3, s2)>> :
                        c3 \in {c \in AfkCuts : c > c2}, s1 \in Statuses, s2 \in Statuses} :
                    <<c1, c2>> \in {p \in (AfkCuts \ {0}) \X AfkCuts : p[2] >= p[1]}}

InitGap ==
    /\ now = 0
    /\ \E w \in GapWindows : \E afk \in GapAfk :
         events = [b \in AllBuckets |-> IF b \in Range(AfkBuckets) THEN afk ELSE w]
    /\ StoreInit(EngineQueueSize)
    /\ EngineInit
    /\ ObsInit
    /\ ThreadsInit
    /\ SchedInit
    /\ ComponentInit
    /\ req = [pc |-> "ready"]

\* sync_engine.py:199  filled = self._fill_window_gaps(raw_events, afk_events)
GapCall ==
    /\ req.pc = "ready"
    /\ LET wevs == events[WindowBuckets[1]]
           afk == events[AfkBuckets[1]]
       IN req' = [pc |-> "gap", out |-> fill_window_gaps(wevs, afk),
                  filled |-> gaps_filled(wevs, afk)]
    /\ UNCHANGED <<now, events, storeVars, engineVars, cycleVars, obs, th, enq, sched, comp>>

NextGap == GapCall

SpecGap == InitGap /\ [][NextGap]_vars

(***************************************************************************)
(* SpecLock: processes of the application start and end on one machine,    *)
(* each through main() and SingleInstanceLock (main.py), on the flock      *)
(* branch of acquire and release. A file is an inode number; the lock      *)
(* path names one inode or none (0)                                        *)
(***************************************************************************)
LockProcs == {"p1", "p2", "p3"}
NoFile == 0
NoProc == "none"

InitLock ==
    /\ TrackerInit
    /\ StoreInit(EngineQueueSize)
    /\ EngineInit
    /\ ObsInit
    /\ ThreadsInit
    /\ SchedInit
    /\ RequestInit
    /\ comp = [name |-> "lock", path |-> NoFile, made |-> 0,
               holder |-> [f \in 1..MaxLockFiles |-> NoProc],
               proc |-> [p \in LockProcs |-> [pc |-> "idle", fd |-> NoFile]]]

\* main.py:874-875  acquire(): open(self._path, "a+") opens the file the path
\* names, creating one when it names none
LockOpen(p) ==
    /\ comp.proc[p].pc = "idle"
    /\ comp.path = NoFile => comp.made < MaxLockFiles
    /\ LET f == IF comp.path = NoFile THEN comp.made + 1 ELSE comp.path
       IN comp' = [comp EXCEPT !.path = f,
                               !.made = IF comp.path = NoFile THEN @ + 1 ELSE @,
                               !.proc[p] = [pc |-> "opened", fd |-> f]]
    /\ UNCHANGED engineSide

\* main.py:876-890  acquire(): flock(LOCK_EX | LOCK_NB) on the open file, then
\* the pid is written and True returned; on OSError the file is closed and
\* False returned, and main() exits
LockTry(p) ==
    /\ comp.proc[p].pc = "opened"
    /\ LET f == comp.proc[p].fd
       IN IF comp.holder[f] # NoProc
          THEN comp' = [comp EXCEPT !.proc[p] = [pc |-> "idle", fd |-> NoFile]]
          ELSE comp' = [comp EXCEPT !.holder[f] = p, !.proc[p].pc = "held"]
    /\ UNCHANGED engineSide

\* main.py:892-905  release(): flock(LOCK_UN) and close() of the open file
LockRelease(p) ==
    /\ comp.proc[p].pc = "held"
    /\ comp' = [comp EXCEPT !.holder[comp.proc[p].fd] = NoProc,
                            !.proc[p] = [pc |-> "closing", fd |-> NoFile]]
    /\ UNCHANGED engineSide

\* main.py:906-909  release(): os.unlink(self._path) removes the name,
\* whichever file it names now; OSError when it names none is ignored
LockUnlink(p) ==
    /\ comp.proc[p].pc = "closing"
    /\ comp' = [comp EXCEPT !.path = NoFile, !.proc[p].pc = "idle"]
    /\ UNCHANGED engineSide

NextLock ==
    \E p \in LockProcs : LockOpen(p) \/ LockTry(p) \/ LockRelease(p) \/ LockUnlink(p)

SpecLock == InitLock /\ [][NextLock]_vars

(***************************************************************************)
(* SpecShutdown: BetterFlowSyncApp._shutdown (main.py) entered from the     *)
(* main thread (the finally of run() and __exit__) and from the thread of  *)
(* the OS-shutdown callback; a thread may be switched out between any two  *)
(* statements                                                              *)
(***************************************************************************)
ShutdownThreads == {"main", "os"}
\* main.py:846-852  the calls of the shutdown sequence, in order
ShutdownSteps == <<"coordinator.stop", "sync_engine.shutdown", "display_tracker.stop",
                   "aw.close", "bf.close", "queue.close", "aw_manager.stop">>

InitShutdown ==
    /\ TrackerInit
    /\ StoreInit(EngineQueueSize)
    /\ EngineInit
    /\ ObsInit
    /\ ThreadsInit
    /\ SchedInit
    /\ RequestInit
    /\ comp = [name |-> "shutdown", shutdown_done |-> FALSE,
               executed |-> [k \in DOMAIN ShutdownSteps |-> 0],
               thread |-> [t \in ShutdownThreads |-> [pc |-> "out", at |-> 0, calls |-> 0]]]

\* main.py:542,686,860  a thread calls self._shutdown()
ShutdownEnter(t) ==
    /\ comp.thread[t].pc = "out"
    /\ comp.thread[t].calls < MaxShutdownCalls
    /\ comp' = [comp EXCEPT !.thread[t].pc = "test", !.thread[t].calls = @ + 1]
    /\ UNCHANGED engineSide

\* main.py:841-842  if self._shutdown_done: return
ShutdownTest(t) ==
    /\ comp.thread[t].pc = "test"
    /\ comp' = [comp EXCEPT !.thread[t].pc = IF comp.shutdown_done THEN "out" ELSE "set"]
    /\ UNCHANGED engineSide

\* main.py:843  self._shutdown_done = True
ShutdownSet(t) ==
    /\ comp.thread[t].pc = "set"
    /\ comp' = [comp EXCEPT !.shutdown_done = TRUE,
                            !.thread[t].pc = "run", !.thread[t].at = 1]
    /\ UNCHANGED engineSide

\* main.py:846-852  the next call of the sequence; after the last, return
ShutdownStep(t) ==
    /\ comp.thread[t].pc = "run"
    /\ LET k == comp.thread[t].at
       IN comp' = [comp EXCEPT !.executed[k] = @ + 1,
                               !.thread[t].pc = IF k = Len(ShutdownSteps) THEN "out" ELSE "run",
                               !.thread[t].at = IF k = Len(ShutdownSteps) THEN 0 ELSE k + 1]
    /\ UNCHANGED engineSide

NextShutdown ==
    \E t \in ShutdownThreads :
        ShutdownEnter(t) \/ ShutdownTest(t) \/ ShutdownSet(t) \/ ShutdownStep(t)

SpecShutdown == InitShutdown /\ [][NextShutdown]_vars

(***************************************************************************)
(* SpecSupervisor: AWManager (aw_manager.py) starting, stopping and        *)
(* restarting the tracker's processes, as main.py calls it, while the      *)
(* children exit on their own and another tracker may hold the port.       *)
(* comp.t is the time since the call under way began                       *)
(***************************************************************************)
\* aw_manager.py:23-24
BF_SERVER == "bf-data-service"
BF_WATCHERS == <<"bf-window-tracker", "bf-idle-tracker">>
Components == {BF_SERVER} \cup Range(BF_WATCHERS)
\* seconds a slow /info answer takes: at once, or 1.5 s
AnswerDelays == {0, 3}

\* aw_manager.py:205-212  AWManager.__init__, and what is observed of the
\* calls: launched = components the start() under way has launched,
\* found_open = it found the port in use, info_at = when /info answered,
\* req_at = when that request began, result = what the last start() returned,
\* signals = what the stop() under way has sent, stopped = a stop() has
\* returned since the last start() began
InitSupervisor ==
    /\ TrackerInit
    /\ StoreInit(EngineQueueSize)
    /\ EngineInit
    /\ ObsInit
    /\ ThreadsInit
    /\ SchedInit
    /\ RequestInit
    /\ \E port \in {"free", "external"} :
         comp = [name |-> "supervisor", pc |-> "idle", after |-> "return", t |-> 0,
                 procs |-> [c \in Components |-> "absent"],
                 using_external |-> FALSE, port |-> port, deadline |-> 0,
                 launched |-> <<>>, found_open |-> FALSE, info_at |-> None,
                 req_at |-> None, result |-> "none", signals |-> <<>>,
                 stopped |-> FALSE]

\* a call begins: what was observed of the calls before it is dropped
Forgetting(c) ==
    [c EXCEPT !.t = 0, !.deadline = 0, !.launched = <<>>, !.found_open = FALSE,
              !.info_at = None, !.req_at = None, !.result = "none", !.signals = <<>>,
              !.stopped = FALSE]

\* aw_manager.py:214  is_managing
is_managing == (\E c \in Components : comp.procs[c] # "absent") /\ ~comp.using_external

\* aw_manager.py:219-250  start() up to the launch of the server;
\* binaries = the binaries are there or were downloaded, launch_ok = Popen
\* of the server succeeds
SupStart(binaries, launch_ok) ==
    /\ comp.pc \in {"idle", "start"}
    /\ LET running == comp.port # "free"
           begun == [Forgetting(comp) EXCEPT !.found_open = running, !.after = "return"]
       IN comp' =
            IF ~binaries
            THEN [begun EXCEPT !.pc = "idle",
                               !.result = IF running THEN "true" ELSE "false"]
            ELSE IF running
            THEN [begun EXCEPT !.using_external = TRUE, !.pc = "watchers"]
            ELSE IF ~launch_ok
            THEN [begun EXCEPT !.pc = "idle", !.result = "false"]
            ELSE [begun EXCEPT !.procs[BF_SERVER] = "alive",
                               !.launched = <<BF_SERVER>>,
                               !.deadline = STARTUP_TIMEOUT,
                               !.pc = "wait"]
    /\ UNCHANGED engineSide

\* the wait that has no deadline
wait_failed_on_exit_only(t, deadline, server) == server = "exited"

\* aw_manager.py:465-474  _wait_for_server gives up: the loop test fails, or
\* the poll of the server's process finds that it has exited
wait_failed(t, deadline, server) == ~(t < deadline) \/ server = "exited"

\* aw_manager.py:465-474  _wait_for_server: the loop test and the poll of the
\* server's process; on failure start() calls stop() and returns False
SupWait ==
    /\ comp.pc = "wait"
    /\ comp' = IF wait_failed(comp.t, comp.deadline, comp.procs[BF_SERVER])
               THEN [comp EXCEPT !.pc = "stop", !.after = "fail"]
               ELSE [comp EXCEPT !.pc = "request", !.req_at = comp.t]
    /\ UNCHANGED engineSide

\* aw_manager.py:475-481  urlopen(/info, timeout=2): an answer after d, or an
\* error after d and the sleep
SupRequest(ok, d) ==
    /\ comp.pc = "request"
    /\ ok => comp.port # "free" /\ d \in AnswerDelays
    /\ ~ok => d \in {0, URLOPEN_TIMEOUT}
    /\ comp' = IF ok
               THEN [comp EXCEPT !.t = @ + d, !.info_at = comp.t + d, !.pc = "watchers"]
               ELSE [comp EXCEPT !.t = @ + d + STARTUP_POLL, !.pc = "wait"]
    /\ UNCHANGED engineSide

\* the index set of a sequence's elements that are in a set, in order
RECURSIVE Among(_, _)
Among(seq, set) ==
    IF seq = <<>> THEN <<>>
    ELSE (IF Head(seq) \in set THEN <<Head(seq)>> ELSE <<>>) \o Among(Tail(seq), set)

\* aw_manager.py:254-263  start(): the watchers that are not running are
\* launched; oks = those whose Popen succeeds
SupWatchers(oks) ==
    /\ comp.pc = "watchers"
    /\ LET due == {w \in Range(BF_WATCHERS) : comp.procs[w] # "alive"}
       IN comp' = [comp EXCEPT
                     !.procs = [c \in Components |->
                                  IF c \in due \cap oks THEN "alive" ELSE @[c]],
                     !.launched = @ \o Among(BF_WATCHERS, due \cap oks),
                     !.result = "true", !.pc = "idle"]
    /\ UNCHANGED engineSide

\* aw_manager.py:279  stop_order = BF_WATCHERS + [BF_SERVER]
stop_order == BF_WATCHERS \o <<BF_SERVER>>

\* aw_manager.py:265-286  stop() up to the terminate signals
SupStop ==
    /\ comp.pc \in {"idle", "stop"}
    /\ LET alive == {c \in Components : comp.procs[c] = "alive"}
           order == Among(stop_order, alive)
           from == IF comp.pc = "idle" THEN Forgetting(comp) ELSE comp
           back == [from EXCEPT !.pc = IF comp.pc = "idle" THEN "idle"
                                       ELSE IF comp.after = "fail" THEN "idle" ELSE "start",
                                !.result = IF comp.pc = "stop" /\ comp.after = "fail"
                                           THEN "false" ELSE @,
                                !.after = "return", !.signals = <<>>, !.stopped = TRUE]
       IN comp' =
            IF comp.using_external \/ \A c \in Components : comp.procs[c] = "absent"
            THEN back
            ELSE [from EXCEPT !.t = 0, !.deadline = SHUTDOWN_TIMEOUT,
                              !.signals = [k \in 1..Len(order) |->
                                              [to |-> order[k], sig |-> "terminate", at |-> 0]],
                              !.after = IF comp.pc = "idle" THEN "return" ELSE @,
                              !.pc = "stop_wait"]
    /\ UNCHANGED engineSide

\* aw_manager.py:288-298  stop(): each child is waited for until the deadline
\* and killed when the wait times out, then the table is cleared; stubborn =
\* the children that do not exit by themselves
SupStopWait(stubborn) ==
    /\ comp.pc = "stop_wait"
    /\ stubborn \subseteq {c \in Components : comp.procs[c] = "alive"}
    /\ LET order == Among(stop_order, stubborn)
       IN comp' = [comp EXCEPT
                     !.t = IF stubborn = {} THEN @ ELSE comp.deadline,
                     !.signals = @ \o [k \in 1..Len(order) |->
                                         [to |-> order[k], sig |-> "kill", at |-> comp.deadline]],
                     !.procs = [c \in Components |-> "absent"],
                     !.port = IF @ = "managed" THEN "free" ELSE @,
                     !.stopped = TRUE,
                     !.result = IF comp.after = "fail" THEN "false" ELSE @,
                     !.pc = IF comp.after = "start" THEN "start" ELSE "idle",
                     !.after = "return"]
    /\ UNCHANGED engineSide

\* aw_manager.py:316-374  restart_if_needed() as _do_sync calls it (is_managing
\* holds, so the tracker is not an external one): the table after it;
\* oks = the components whose Popen succeeds, stale = the window tracker has
\* recorded nothing for STALE_THRESHOLD
restart_if_needed(procs, binaries, oks, stale) ==
    IF ~binaries THEN procs
    ELSE [c \in Components |->
            IF procs[c] = "exited" THEN (IF c \in oks THEN "alive" ELSE "exited")
            ELSE IF c = BF_WATCHERS[1] /\ procs[c] = "alive" /\ stale
            THEN (IF c \in oks THEN "alive" ELSE "exited")
            ELSE procs[c]]

\* main.py:186-203  _do_sync up to sync_engine.sync(): private = the engine
\* is in private time, offline = paused_by_network, responding = the tracker
\* answers aw.is_running()
SupSync(private, offline, responding, binaries, oks, stale) ==
    /\ comp.pc = "idle"
    /\ comp' =
         IF private \/ offline THEN Forgetting(comp)
         ELSE LET procs == IF is_managing
                           THEN restart_if_needed(comp.procs, binaries, oks, stale)
                           ELSE comp.procs
                  managing == (\E c \in Components : procs[c] # "absent")
                              /\ ~comp.using_external
              IN [Forgetting(comp) EXCEPT !.procs = procs,
                              !.pc = IF ~responding /\ managing THEN "stop" ELSE "idle",
                              !.after = IF ~responding /\ managing THEN "start" ELSE "return"]
    /\ UNCHANGED engineSide

\* a child process exits on its own
ChildExit(c) ==
    /\ comp.procs[c] = "alive"
    /\ comp' = [comp EXCEPT !.procs[c] = "exited",
                            !.port = IF c = BF_SERVER /\ @ = "managed" THEN "free" ELSE @]
    /\ UNCHANGED engineSide

\* the launched server begins to listen on the port
ServerListens ==
    /\ comp.procs[BF_SERVER] = "alive"
    /\ comp.port = "free"
    /\ comp' = [comp EXCEPT !.port = "managed"]
    /\ UNCHANGED engineSide

\* a tracker that the supervisor did not launch starts or stops, between calls
ExternalTracker ==
    /\ comp.pc = "idle"
    /\ comp.port \in {"free", "external"}
    /\ comp.procs[BF_SERVER] # "alive"
    /\ comp' = [comp EXCEPT !.port = IF @ = "free" THEN "external" ELSE "free"]
    /\ UNCHANGED engineSide

NextSupervisor ==
    \/ \E binaries \in BOOLEAN : \E launch_ok \in BOOLEAN : SupStart(binaries, launch_ok)
    \/ SupWait
    \/ \E ok \in BOOLEAN : \E d \in AnswerDelays \cup {0, URLOPEN_TIMEOUT} : SupRequest(ok, d)
    \/ \E oks \in SUBSET Range(BF_WATCHERS) : SupWatchers(oks)
    \/ SupStop
    \/ \E stubborn \in SUBSET Components : SupStopWait(stubborn)
    \/ \E private \in BOOLEAN : \E offline \in BOOLEAN :
         (private \/ offline) /\ SupSync(private, offline, TRUE, TRUE, {}, FALSE)
    \/ \E responding \in BOOLEAN : \E binaries \in BOOLEAN :
       \E oks \in SUBSET Components : \E stale \in BOOLEAN :
         /\ ~binaries => oks = {} /\ ~stale
         /\ SupSync(FALSE, FALSE, responding, binaries, oks, stale)
    \/ \E c \in Components : ChildExit(c)
    \/ ServerListens
    \/ ExternalTracker

SpecSupervisor == InitSupervisor /\ [][NextSupervisor]_vars

(***************************************************************************)
(* SpecNetwork: the network channel of system_events.py, as the poller     *)
(* (_start_network_poller) or as the macOS reachability listener           *)
(* (_start_macos_network_listener). comp.seen is what was observed of the  *)
(* network, in order; comp.fired the callbacks made, each with the index   *)
(* of the observation that caused it                                       *)
(***************************************************************************)
NetStates == {"online", "offline"}

InitNetwork ==
    /\ TrackerInit
    /\ StoreInit(EngineQueueSize)
    /\ EngineInit
    /\ ObsInit
    /\ ThreadsInit
    /\ SchedInit
    /\ RequestInit
    /\ comp = [name |-> "network", pc |-> "start", online |-> "unknown",
               seen |-> <<>>, fired |-> <<>>]

\* system_events.py:349-375 and 170-228  the channel starts: as the poller
\* (other platforms, or SystemConfiguration missing, or no reachability
\* target), or as the listener, whose SCNetworkReachabilityGetFlags gives the
\* initial state when ok
NetStart(listener, ok, st) ==
    /\ comp.pc = "start"
    /\ comp' = IF ~listener THEN [comp EXCEPT !.pc = "polling"]
               ELSE IF ok THEN [comp EXCEPT !.pc = "listening", !.online = st,
                                            !.seen = <<st>>]
               ELSE [comp EXCEPT !.pc = "listening"]
    /\ UNCHANGED engineSide

\* system_events.py:358-371  one turn of poll(): the connection attempt gives st
NetPoll(st) ==
    /\ comp.pc = "polling"
    /\ Len(comp.seen) < MaxNetObs
    /\ comp' = [comp EXCEPT
                  !.seen = Append(@, st),
                  !.fired = IF comp.online # "unknown" /\ comp.online # st
                            THEN Append(@, [at |-> Len(comp.seen) + 1, arg |-> st])
                            ELSE @,
                  !.online = st]
    /\ UNCHANGED engineSide

\* system_events.py:197-203  _reachability_callback(target, flags, info) with
\* flags that mean st
NetCallback(st) ==
    /\ comp.pc = "listening"
    /\ Len(comp.seen) < MaxNetObs
    /\ comp' = [comp EXCEPT
                  !.seen = Append(@, st),
                  !.fired = IF comp.online # st
                            THEN Append(@, [at |-> Len(comp.seen) + 1, arg |-> st])
                            ELSE @,
                  !.online = st]
    /\ UNCHANGED engineSide

NextNetwork ==
    \/ \E listener \in BOOLEAN : \E ok \in BOOLEAN : \E st \in NetStates :
         NetStart(listener, ok, st)
    \/ \E st \in NetStates : NetPoll(st)
    \/ \E st \in NetStates : NetCallback(st)

SpecNetwork == InitNetwork /\ [][NextNetwork]_vars

(***************************************************************************)
(* SpecAuth: one BrowserAuthFlow.start() (auth/browser_auth.py) and the    *)
(* requests its callback server handles on the server thread. A missing    *)
(* query parameter is Missing. comp.first is the first /callback request   *)
(* that passed the callback_received test, with what start() was doing     *)
(***************************************************************************)
Missing == "none"
AuthStates == {"s1", "s2"}
AuthCodes == {"c1", "c2"}
AuthErrors == {"access_denied"}
NoResult == [success |-> FALSE, code |-> Missing, error |-> "pending"]
NoCallback == [seen |-> FALSE]

InitAuth ==
    /\ TrackerInit
    /\ StoreInit(EngineQueueSize)
    /\ EngineInit
    /\ ObsInit
    /\ ThreadsInit
    /\ SchedInit
    /\ RequestInit
    /\ comp = [name |-> "auth", pc |-> "created", expected_state |-> Missing,
               auth_code |-> Missing, auth_error |-> Missing,
               callback_received |-> FALSE, result |-> NoResult,
               handled |-> 0, first |-> NoCallback]

\* browser_auth.py:186-212  start() up to the wait: the state is generated,
\* the server's fields are set and the server thread serves
AuthStart(state) ==
    /\ comp.pc = "created"
    /\ comp' = [comp EXCEPT !.pc = "waiting", !.expected_state = state]
    /\ UNCHANGED engineSide

\* the state a request carries passes as the flow's state
state_verified_any(state, expected) == state # Missing

\* browser_auth.py:115  the test of the state parameter
state_verified(state, expected) == state # Missing /\ state = expected

\* browser_auth.py:92-138  do_GET for one request; the server serves from
\* start()'s thread.start() to the shutdown() of its finally
do_GET(path, state, code, error) ==
    /\ comp.pc \in {"waiting", "timed_out"}
    /\ comp.handled < MaxAuthRequests
    /\ LET c0 == [comp EXCEPT !.handled = @ + 1]
           c1 == [c0 EXCEPT !.callback_received = TRUE]
           done == IF path # "/callback" \/ comp.callback_received THEN c0
                   ELSE IF ~state_verified(state, comp.expected_state)
                        THEN [c1 EXCEPT !.auth_error = "state_mismatch"]
                   ELSE IF code # Missing THEN [c1 EXCEPT !.auth_code = code]
                   ELSE [c1 EXCEPT !.auth_error =
                                      IF error = Missing THEN "unknown" ELSE error]
       IN comp' = IF path = "/callback" /\ ~comp.callback_received
                  THEN [done EXCEPT !.first =
                           [seen |-> TRUE, state |-> state, code |-> code,
                            waiting |-> comp.pc = "waiting",
                            auth_code |-> done.auth_code,
                            auth_error |-> done.auth_error]]
                  ELSE done
    /\ UNCHANGED engineSide

\* browser_auth.py:174-177  cancel() from another thread
AuthCancel ==
    /\ comp.pc \in {"waiting", "timed_out"}
    /\ comp' = [comp EXCEPT !.callback_received = TRUE]
    /\ UNCHANGED engineSide

\* browser_auth.py:213-217  callback_received.wait ends at TIMEOUT_SECONDS
\* with the event not set
AuthTimeout ==
    /\ comp.pc = "waiting"
    /\ ~comp.callback_received
    /\ comp' = [comp EXCEPT !.pc = "timed_out"]
    /\ UNCHANGED engineSide

\* browser_auth.py:215-237  start() from the end of the wait to its return
AuthReturn ==
    /\ \/ comp.pc = "timed_out"
       \/ comp.pc = "waiting" /\ comp.callback_received
    /\ comp' = [comp EXCEPT
                  !.pc = "returned",
                  !.result = IF comp.pc = "timed_out"
                             THEN [success |-> FALSE, code |-> Missing, error |-> "timeout"]
                             ELSE IF comp.auth_code # Missing
                             THEN [success |-> TRUE, code |-> comp.auth_code,
                                   error |-> Missing]
                             ELSE [success |-> FALSE, code |-> Missing,
                                   error |-> comp.auth_error]]
    /\ UNCHANGED engineSide

NextAuth ==
    \/ \E state \in AuthStates : AuthStart(state)
    \/ \E path \in {"/callback", "/favicon.ico"} :
       \E state \in AuthStates \cup {Missing} :
       \E code \in AuthCodes \cup {Missing} :
       \E error \in AuthErrors \cup {Missing} : do_GET(path, state, code, error)
    \/ AuthCancel
    \/ AuthTimeout
    \/ AuthReturn

SpecAuth == InitAuth /\ [][NextAuth]_vars

(***************************************************************************)
(* SpecDaily: threads calling DailyTimeTracker.add_active_time             *)
(* (sync/daily_time_tracker.py) for the date AddDate. A call is followed   *)
(* statement by statement, the += as its read and its write. comp.db is    *)
(* the daily_active_time table, comp.added the positive amounts added for  *)
(* AddDate, those the table held at construction included, comp.waited    *)
(* the calls that began while another call was inside add_active_time      *)
(***************************************************************************)
DailyThreads == {"t1", "t2", "t3"}
DailyDates == {"d0", "d1"}
AddDate == "d1"
AddAmounts == {0 - 1, 0, 1, 2}
StoredTotals == {0, 3}
NoThread == "none"
IdleAdd == [pc |-> "idle", seconds |-> 0, sum |-> 0]

\* daily_time_tracker.py:34-50, 84-106  __init__ and _load: _today is the
\* local date, _today_seconds what the table holds for it
InitDaily ==
    /\ TrackerInit
    /\ StoreInit(EngineQueueSize)
    /\ EngineInit
    /\ ObsInit
    /\ ThreadsInit
    /\ SchedInit
    /\ RequestInit
    /\ \E today \in DailyDates : \E db \in [DailyDates -> StoredTotals] :
         comp = [name |-> "daily", today |-> today, today_seconds |-> db[today],
                 db |-> db, lock |-> NoThread,
                 t |-> [x \in DailyThreads |-> IdleAdd],
                 calls |-> 0, added |-> db[AddDate], positive |-> 0,
                 waited |-> 0]

\* daily_time_tracker.py:129-130  the call and its test of seconds
AddCall(x, seconds) ==
    /\ comp.t[x].pc = "idle"
    /\ comp.calls < MaxAddCalls
    /\ comp' = IF seconds <= 0 THEN [comp EXCEPT !.calls = @ + 1]
               ELSE [comp EXCEPT !.calls = @ + 1,
                                 !.added = @ + seconds,
                                 !.positive = @ + 1,
                                 !.waited = IF \E y \in DailyThreads :
                                                  comp.t[y].pc # "idle"
                                            THEN @ + 1 ELSE @,
                                 !.t[x] = [pc |-> "lock", seconds |-> seconds,
                                           sum |-> 0]]
    /\ UNCHANGED engineSide

\* a lock any thread may take
lock_free_always(holder) == TRUE

\* daily_time_tracker.py:132  threading.Lock: taken when no thread holds it
lock_free(holder) == holder = NoThread

\* daily_time_tracker.py:132  with self._lock
AddAcquire(x) ==
    /\ comp.t[x].pc = "lock"
    /\ lock_free(comp.lock)
    /\ comp' = [comp EXCEPT !.lock = x, !.t[x].pc = "rollover"]
    /\ UNCHANGED engineSide

\* daily_time_tracker.py:134-135, 184-204  the day test and
\* _reset_for_new_day
AddRollover(x) ==
    /\ comp.t[x].pc = "rollover"
    /\ comp' = IF comp.today # AddDate
               THEN [comp EXCEPT !.today = AddDate,
                                 !.today_seconds = comp.db[AddDate],
                                 !.t[x].pc = "read"]
               ELSE [comp EXCEPT !.t[x].pc = "read"]
    /\ UNCHANGED engineSide

\* daily_time_tracker.py:137  self._today_seconds += seconds: the sum
AddRead(x) ==
    /\ comp.t[x].pc = "read"
    /\ comp' = [comp EXCEPT !.t[x].pc = "write",
                            !.t[x].sum = comp.today_seconds + comp.t[x].seconds]
    /\ UNCHANGED engineSide

\* daily_time_tracker.py:137  self._today_seconds += seconds: the store
AddWrite(x) ==
    /\ comp.t[x].pc = "write"
    /\ comp' = [comp EXCEPT !.t[x].pc = "persist",
                            !.today_seconds = comp.t[x].sum]
    /\ UNCHANGED engineSide

\* daily_time_tracker.py:138, 213-229  _persist, and the lock released at
\* the end of the with block
AddPersist(x) ==
    /\ comp.t[x].pc = "persist"
    /\ comp' = [comp EXCEPT !.db[comp.today] = comp.today_seconds,
                            !.lock = NoThread,
                            !.t[x] = IdleAdd]
    /\ UNCHANGED engineSide

NextDaily ==
    \/ \E x \in DailyThreads : \E seconds \in AddAmounts : AddCall(x, seconds)
    \/ \E x \in DailyThreads : AddAcquire(x)
    \/ \E x \in DailyThreads : AddRollover(x)
    \/ \E x \in DailyThreads : AddRead(x)
    \/ \E x \in DailyThreads : AddWrite(x)
    \/ \E x \in DailyThreads : AddPersist(x)

SpecDaily == InitDaily /\ [][NextDaily]_vars


(***************************************************************************)
(* SpecReminder: the ReminderManager (reminders.py). Its clock is          *)
(* time.monotonic, here in ticks of 30 minutes. comp.began is when         *)
(* tracking last became active, comp.prev when the break notification      *)
(* before the last one was sent, comp.sent the last break notification     *)
(***************************************************************************)
TICKS_PER_HOUR == 2
MINUTES_PER_TICK == 30
BreakIntervalHours == {1, 2}
PrivateIntervalMinutes == {30}
ReminderSettings ==
    [break_reminders_enabled : BOOLEAN, break_interval_hours : BreakIntervalHours,
     private_reminders_enabled : {TRUE}, private_interval_minutes : PrivateIntervalMinutes]
NoBreakSent == [on |-> FALSE]

\* reminders.py:24-35  __init__, with the defaults of config.py:188-194
InitReminder ==
    /\ TrackerInit
    /\ StoreInit(EngineQueueSize)
    /\ EngineInit
    /\ ObsInit
    /\ ThreadsInit
    /\ SchedInit
    /\ RequestInit
    /\ comp = [name |-> "reminder", mono |-> 0,
               settings |-> [break_reminders_enabled |-> TRUE,
                             break_interval_hours |-> 2,
                             private_reminders_enabled |-> TRUE,
                             private_interval_minutes |-> 30],
               work_start |-> None, last_break_notification |-> None,
               tracking_active |-> FALSE,
               private_start |-> None, last_private_notification |-> None,
               private_active |-> FALSE,
               began |-> None, prev |-> None, sent |-> NoBreakSent]

\* time.monotonic advances
MonoTick ==
    /\ comp.mono < MaxMono
    /\ comp' = [comp EXCEPT !.mono = @ + 1]
    /\ UNCHANGED engineSide

\* reminders.py:39-46
on_tracking_started ==
    /\ comp' = IF ~comp.tracking_active
               THEN [comp EXCEPT !.work_start = comp.mono,
                                 !.last_break_notification = None,
                                 !.tracking_active = TRUE,
                                 !.began = comp.mono]
               ELSE comp
    /\ UNCHANGED engineSide

\* reminders.py:48-54
on_tracking_stopped ==
    /\ comp' = IF comp.tracking_active
               THEN [comp EXCEPT !.work_start = None,
                                 !.last_break_notification = None,
                                 !.tracking_active = FALSE,
                                 !.began = None]
               ELSE comp
    /\ UNCHANGED engineSide

\* reminders.py:56-63
on_private_started ==
    /\ comp' = IF ~comp.private_active
               THEN [comp EXCEPT !.private_start = comp.mono,
                                 !.last_private_notification = None,
                                 !.private_active = TRUE]
               ELSE comp
    /\ UNCHANGED engineSide

\* reminders.py:65-71
on_private_ended ==
    /\ comp' = IF comp.private_active
               THEN [comp EXCEPT !.private_start = None,
                                 !.last_private_notification = None,
                                 !.private_active = FALSE]
               ELSE comp
    /\ UNCHANGED engineSide

\* reminders.py:79-82
update_settings(settings) ==
    /\ comp' = [comp EXCEPT !.settings = settings]
    /\ UNCHANGED engineSide

\* Python's "a or b" on an optional number: b when a is None or 0
or_else(a, b) == IF a = None \/ a = 0 THEN b ELSE a

\* a reminder due whenever the interval has passed since the start
reminder_due_since_start(t, start, last, interval) == t - start >= interval

\* reminders.py:93-100, 116-122  the two tests of the elapsed time
reminder_due(t, start, last, interval) ==
    /\ t - start >= interval
    /\ t - or_else(last, start) >= interval

\* reminders.py:86-107  _check_break: whether it notifies
check_break(c, t) ==
    /\ c.settings.break_reminders_enabled
    /\ c.tracking_active /\ c.work_start # None
    /\ reminder_due(t, c.work_start, c.last_break_notification,
                    c.settings.break_interval_hours * TICKS_PER_HOUR)

\* reminders.py:109-129  _check_private: whether it notifies
check_private(c, t) ==
    /\ c.settings.private_reminders_enabled
    /\ c.private_active /\ c.private_start # None
    /\ reminder_due(t, c.private_start, c.last_private_notification,
                    c.settings.private_interval_minutes \div MINUTES_PER_TICK)

\* reminders.py:73-77  check()
check ==
    /\ LET t == comp.mono
           c1 == IF check_break(comp, t)
                 THEN [comp EXCEPT
                         !.last_break_notification = t,
                         !.prev = IF comp.sent.on THEN comp.sent.at ELSE None,
                         !.sent = [on |-> TRUE, at |-> t, began |-> comp.began,
                                   interval |-> comp.settings.break_interval_hours
                                                * TICKS_PER_HOUR]]
                 ELSE comp
       IN comp' = IF check_private(comp, t)
                  THEN [c1 EXCEPT !.last_private_notification = t]
                  ELSE c1
    /\ UNCHANGED engineSide

NextReminder ==
    \/ MonoTick
    \/ on_tracking_started
    \/ on_tracking_stopped
    \/ on_private_started
    \/ on_private_ended
    \/ \E settings \in ReminderSettings : update_settings(settings)
    \/ check

SpecReminder == InitReminder /\ [][NextReminder]_vars


(***************************************************************************)
(* SpecCrash: sync cycles that a restart of the process may cut at any     *)
(* step, over a tracker whose window events lie further apart than the     *)
(* look-back. The remote is unreachable: nothing is acknowledged, so an    *)
(* event the engine has dealt with must be in the offline queue            *)
(***************************************************************************)
CrashTime == LOOKBACK + 2 * ClockStep

CrashWindows ==
    LET e1(d) == [id |-> 1, timestamp |-> 0, duration |-> d, app |-> "Editor",
                  status |-> NoStatus]
        e2(t) == [id |-> 2, timestamp |-> t, duration |-> MIN_DURATION,
                  app |-> "Editor", status |-> NoStatus]
    IN {<<e1(d)>> : d \in {MIN_DURATION, ClockStep}}
       \cup {<<e1(d), e2(t)>> : d \in {MIN_DURATION, ClockStep},
                                t \in {ClockStep, CrashTime - ClockStep}}

InitCrash ==
    /\ now = CrashTime
    /\ \E w \in CrashWindows :
         events = [b \in AllBuckets |->
                     IF b \in Range(AfkBuckets) THEN afk_extended(<<AfkOpen>>, CrashTime)
                     ELSE w]
    /\ StoreInit(MaxQueued)
    /\ EngineInit
    /\ ObsInit
    /\ ThreadsInit
    /\ SchedInit
    /\ ComponentInit
    /\ RequestInit

NextCrash ==
    \/ Restart
    \/ \E running \in BOOLEAN : SyncBegin(running, TRUE)
    \/ \E afk_ok \in BOOLEAN : SyncBucket(TRUE, afk_ok)
    \/ \E answer \in {"503", "timeout"} :
         /\ pc = "send"
         /\ QueueRoom(Len(batches_from(cyc.all_events, cyc.batch_idx)))
         /\ SyncSend(answer)
    \/ SyncQueue(FALSE)
    \/ \E hb \in {"error", "none"} : SyncHeartbeat(hb, TRUE)
    \/ SyncReturn

SpecCrash == InitCrash /\ [][NextCrash]_vars


(***************************************************************************)
(* SpecBacklog: sync cycles, none of them cut, over a window bucket that   *)
(* holds up to BatchSize + 1 events when the engine starts. The remote is  *)
(* unreachable, so every event of an outgoing batch goes to the offline    *)
(* queue, which has room for all of them                                   *)
(***************************************************************************)
BacklogWindows ==
    LET ev(i, t) == [id |-> i, timestamp |-> t, duration |-> MIN_DURATION,
                     app |-> "Editor", status |-> NoStatus]
    IN {<<ev(1, 0)>>}
       \cup {<<ev(1, 0), ev(2, t)>> : t \in {ClockStep, CrashTime - ClockStep}}
       \cup {<<ev(1, 0), ev(2, t), ev(3, CrashTime)>> :
                t \in {ClockStep, CrashTime - ClockStep}}

InitBacklog ==
    /\ now = CrashTime
    /\ \E w \in BacklogWindows :
         events = [b \in AllBuckets |->
                     IF b \in Range(AfkBuckets) THEN afk_extended(<<AfkOpen>>, CrashTime)
                     ELSE w]
    /\ StoreInit(MaxQueued)
    /\ EngineInit
    /\ ObsInit
    /\ ThreadsInit
    /\ SchedInit
    /\ ComponentInit
    /\ RequestInit

NextBacklog ==
    \/ \E running \in BOOLEAN : SyncBegin(running, TRUE)
    \/ \E afk_ok \in BOOLEAN : SyncBucket(TRUE, afk_ok)
    \/ \E answer \in {"503", "timeout"} :
         /\ pc = "send"
         /\ QueueRoom(Len(batches_from(cyc.all_events, cyc.batch_idx)))
         /\ SyncSend(answer)
    \/ SyncQueue(FALSE)
    \/ \E hb \in {"error", "none"} : SyncHeartbeat(hb, TRUE)
    \/ SyncReturn

SpecBacklog == InitBacklog /\ [][NextBacklog]_vars


(***************************************************************************)
(* SpecResend: sync cycles over a window event that the watcher extends    *)
(* between the cycles, against a remote that answers or is unavailable     *)
(***************************************************************************)
InitResend ==
    /\ now = ClockStep
    /\ events = [b \in AllBuckets |->
                   IF b \in Range(AfkBuckets) THEN afk_extended(<<AfkOpen>>, ClockStep)
                   ELSE <<[id |-> 1, timestamp |-> 0, duration |-> MIN_DURATION,
                           app |-> "Editor", status |-> NoStatus]>>]
    /\ StoreInit(MaxQueued)
    /\ EngineInit
    /\ ObsInit
    /\ ThreadsInit
    /\ SchedInit
    /\ ComponentInit
    /\ RequestInit

NextResend ==
    \/ \E b \in Range(WindowBuckets) : \E dur \in 1..MaxTime :
         pc = "idle" /\ Extend(b, dur)
    \/ \E running \in BOOLEAN : SyncBegin(running, TRUE)
    \/ SyncBucket(TRUE, TRUE)
    \/ \E answer \in {"200", "503"} :
         /\ pc = "send"
         /\ send_events(answer) # "success" =>
                QueueRoom(Len(batches_from(cyc.all_events, cyc.batch_idx)))
         /\ SyncSend(answer)
    \/ \E reach \in BOOLEAN : SyncQueue(reach)
    \/ \E answer \in {"200", "503"} : SyncDrain(answer)
    \/ SyncHeartbeat("none", TRUE)
    \/ SyncReturn

SpecResend == InitResend /\ [][NextResend]_vars


(***************************************************************************)
(* SpecPause: the handlers of main.py that pause and resume the engine:    *)
(* tray, power, screen lock and network callbacks, and the heartbeat       *)
(* command of a sync cycle. comp holds coordinator.paused_by_network, the  *)
(* tray's state, the triggered syncs and the machine's condition (asleep,  *)
(* locked, online); comp.held is who asked for the pause in force (the     *)
(* user, the server), cleared by the user's resume alone; comp.net_pause   *)
(* is set while a pause for network loss is owed                           *)
(***************************************************************************)
InitPause ==
    /\ TrackerInit
    /\ StoreInit(EngineQueueSize)
    /\ EngineInit
    /\ ObsInit
    /\ ThreadsInit
    /\ SchedInit
    /\ RequestInit
    /\ comp = [name |-> "pause", paused_by_network |-> FALSE, tray |-> "syncing",
               pending |-> {}, asleep |-> FALSE, locked |-> FALSE, online |-> TRUE,
               held |-> "none", net_pause |-> FALSE]

pauseSide == <<now, events, rows, next_row_id, max_size, private_mode, private_start,
               heartbeat_count, queue_consecutive_failures, queue_backoff_until,
               sent_cache, cycleVars, obs, th, enq, sched, req>>

\* sync_engine.py:89-99  pause()
engine_pause ==
    /\ checkpoints' = IF ~paused THEN advance_checkpoints_to_now(checkpoints, AllBuckets)
                      ELSE checkpoints
    /\ paused' = TRUE

\* sync_engine.py:101-103  resume()
engine_resume ==
    /\ paused' = FALSE
    /\ UNCHANGED checkpoints

\* main.py:624-630  _on_pause
on_pause ==
    /\ engine_pause
    /\ comp' = [comp EXCEPT !.paused_by_network = FALSE, !.tray = "paused",
                            !.held = "user"]
    /\ UNCHANGED pauseSide

\* main.py:632-638  _on_resume
on_resume ==
    /\ engine_resume
    /\ comp' = [comp EXCEPT !.paused_by_network = FALSE, !.tray = "syncing",
                            !.held = "none", !.net_pause = FALSE]
    /\ UNCHANGED pauseSide

\* main.py:667-673  _on_system_sleep
on_system_sleep ==
    /\ ~comp.asleep
    /\ engine_pause
    /\ comp' = [comp EXCEPT !.paused_by_network = FALSE, !.tray = "paused",
                            !.asleep = TRUE]
    /\ UNCHANGED pauseSide

\* main.py:675-681  _on_system_wake
on_system_wake ==
    /\ comp.asleep
    /\ engine_resume
    /\ comp' = [comp EXCEPT !.tray = "syncing", !.asleep = FALSE,
                            !.pending = @ \cup {"wake_sync"}]
    /\ UNCHANGED pauseSide

\* main.py:688-692  _on_screen_lock
on_screen_lock ==
    /\ ~comp.locked
    /\ engine_pause
    /\ comp' = [comp EXCEPT !.tray = "paused", !.locked = TRUE]
    /\ UNCHANGED pauseSide

\* main.py:694-699  _on_screen_unlock
on_screen_unlock ==
    /\ comp.locked
    /\ engine_resume
    /\ comp' = [comp EXCEPT !.tray = "syncing", !.locked = FALSE,
                            !.pending = @ \cup {"unlock_sync"}]
    /\ UNCHANGED pauseSide

\* main.py:701-713  _on_network_change(is_online), called when the
\* reachability changes
on_network_change(is_online) ==
    /\ comp.online # is_online
    /\ IF is_online
       THEN /\ IF comp.paused_by_network THEN engine_resume
               ELSE UNCHANGED <<paused, checkpoints>>
            /\ comp' = [comp EXCEPT !.paused_by_network = FALSE, !.online = TRUE,
                                    !.net_pause = FALSE,
                                    !.pending = @ \cup {"network_sync"}]
       ELSE /\ engine_pause
            /\ comp' = [comp EXCEPT !.paused_by_network = TRUE, !.online = FALSE,
                                    !.net_pause = TRUE, !.tray = "queued"]
    /\ UNCHANGED pauseSide

\* main.py:184-193, sync_engine.py:157, 613-631  a sync cycle of the job: it
\* returns early when paused by network or when the engine is paused or
\* private; else the heartbeat's command may pause the engine
PauseSync(job, hb) ==
    /\ job \in comp.pending \cup {"sync_job"}
    /\ IF ~comp.paused_by_network /\ ~sync_skipped(paused, private_mode)
          /\ hb \in {"pause", "deregister"}
       THEN /\ paused' = TRUE
            /\ checkpoints' = advance_checkpoints_to_now(checkpoints, AllBuckets)
            /\ comp' = [comp EXCEPT !.pending = @ \ {job}, !.held = "server"]
       ELSE /\ comp' = [comp EXCEPT !.pending = @ \ {job}]
            /\ UNCHANGED <<paused, checkpoints>>
    /\ UNCHANGED pauseSide

NextPause ==
    \/ on_pause
    \/ on_resume
    \/ on_system_sleep
    \/ on_system_wake
    \/ on_screen_lock
    \/ on_screen_unlock
    \/ \E is_online \in BOOLEAN : on_network_change(is_online)
    \/ \E job \in Jobs : \E hb \in HeartbeatOutcomes : PauseSync(job, hb)

SpecPause == InitPause /\ [][NextPause]_vars


(***************************************************************************)
(* SpecPrivateOffline: SpecPrivate against a remote whose every answer is  *)
(* a failure: a rejected token, a rejected batch, an unavailable service,  *)
(* no answer                                                               *)
(***************************************************************************)
FailingAnswers == {"401", "422", "503", "timeout"}

NextPrivateOffline ==
    \/ PrivateTick
    \/ Restart
    \/ \E enabled \in BOOLEAN : \E listed \in BOOLEAN : \E answer \in FailingAnswers :
         /\ obs.private.total < MaxPrivateSends
         /\ SetPrivateMode(enabled, listed, answer)

SpecPrivateOffline == InitPrivate /\ [][NextPrivateOffline]_vars


(***************************************************************************)
(* SpecActive: one call of _is_active_during(start, end, afk_events) on    *)
(* what _get_afk_events_for_range returns: the events of the AFK buckets,  *)
(* put together bucket after bucket and sorted by timestamp. A bucket      *)
(* holds one watcher's events, none beginning before the one before it     *)
(* ends; two buckets (two watchers, or a bucket brought over from another  *)
(* machine) may overlap each other                                         *)
(***************************************************************************)
AfkStatuses == {"afk", "not-afk"}

AfkEvent(k, t, d, st) ==
    [id |-> k, timestamp |-> t, duration |-> d, app |-> NoApp, status |-> st]

\* a watcher's bucket: nothing, one event or two
AfkTimelines ==
    {<<>>}
    \cup {<<AfkEvent(1, t, d, st)>> :
             t \in 0..MaxAfkStart, d \in 0..MaxAfkDuration, st \in AfkStatuses}
    \cup UNION {{<<AfkEvent(1, p[1], p[2], s1), AfkEvent(2, t2, d2, s2)>> :
                    t2 \in (p[1] + p[2])..MaxAfkStart, d2 \in 0..MaxAfkDuration,
                    s1 \in AfkStatuses, s2 \in AfkStatuses} :
                p \in (0..MaxAfkStart) \X (0..MaxAfkDuration)}

\* a second bucket: nothing or one event
AfkSecond == {tl \in AfkTimelines : Len(tl) <= 1}

InitActive ==
    /\ TrackerInit
    /\ StoreInit(EngineQueueSize)
    /\ EngineInit
    /\ ObsInit
    /\ ThreadsInit
    /\ SchedInit
    /\ ComponentInit
    /\ \E tl1 \in AfkTimelines : \E tl2 \in AfkSecond : \E first \in BOOLEAN :
       \E start \in 0..(MaxActiveEnd - 1) : \E end \in (start + 1)..MaxActiveEnd :
         req = [pc |-> "ready", start |-> start, end |-> end,
                buckets |-> IF tl2 = <<>> THEN 1 ELSE 2,
                afk_events |-> SortByTimestamp(IF first THEN tl1 \o tl2
                                               ELSE tl2 \o tl1)]

\* sync_engine.py:395  self._is_active_during(current_end, next_ev.timestamp, afk_events)
ActiveCall ==
    /\ req.pc = "ready"
    /\ req' = [pc |-> "called", start |-> req.start, end |-> req.end,
               buckets |-> req.buckets, afk_events |-> req.afk_events,
               result |-> is_active_during(req.start, req.end, req.afk_events)]
    /\ UNCHANGED <<now, events, storeVars, engineVars, cycleVars, obs, th, enq, sched, comp>>

NextActive == ActiveCall

SpecActive == InitActive /\ [][NextActive]_vars


(***************************************************************************)
(* SpecTransform: one call of _transform_event on an event whose timestamp *)
(* lies before, at or beyond the reading of the clock plus one minute      *)
(***************************************************************************)
TransformTimes ==
    {0, ClockStep, FUTURE_CLAMP, FUTURE_CLAMP + 1, FUTURE_CLAMP + ClockStep,
     FUTURE_CLAMP + ClockStep + 1, 2 * FUTURE_CLAMP}

InitTransform ==
    /\ now \in {0, ClockStep}
    /\ events = [b \in AllBuckets |-> <<>>]
    /\ StoreInit(EngineQueueSize)
    /\ EngineInit
    /\ ObsInit
    /\ ThreadsInit
    /\ SchedInit
    /\ ComponentInit
    /\ \E t \in TransformTimes : \E d \in 0..ClockStep : \E a \in Apps :
         req = [pc |-> "ready",
                event |-> [id |-> 1, timestamp |-> t, duration |-> d, app |-> a,
                           status |-> NoStatus]]

\* sync_engine.py:281  self._transform_event(event, bucket_id, bucket_type)
TransformCall ==
    /\ req.pc = "ready"
    /\ req' = [pc |-> "called", event |-> req.event,
               out |-> transform_event(req.event, WindowBuckets[1],
                                       bucket_type(WindowBuckets[1]))]
    /\ UNCHANGED <<now, events, storeVars, engineVars, cycleVars, obs, th, enq, sched, comp>>

NextTransform == TransformCall

SpecTransform == InitTransform /\ [][NextTransform]_vars


(***************************************************************************)
(* SpecConfig: Config.update_from_server (config.py) on what the server    *)
(* sends. A key of the server's answer is a sequence: empty when the key   *)
(* is absent, else its value. Intervals are in seconds here                *)
(***************************************************************************)
DEFAULT_SYNC_INTERVAL == 60
DEFAULT_BATCH_SIZE == 100
MAX_BATCH_SIZE == 1000
MIN_SYNC_INTERVAL == 30
AFK_TIMEOUTS == {10, 20, 30}

Optional(S) == {<<>>} \cup {<<v>> : v \in S}

ServerConfigs ==
    [sync_interval_seconds : Optional({0, MIN_SYNC_INTERVAL, 45}),
     batch_size : Optional({0 - 1, 0, 1, MAX_BATCH_SIZE, MAX_BATCH_SIZE + 1}),
     afk_timeout_minutes : Optional({5, 20, 30}),
     hash_window_titles : Optional(BOOLEAN),
     screenshots_enabled : Optional(BOOLEAN)]

\* config.py:94-205  the defaults of the settings update_from_server writes
InitConfig ==
    /\ TrackerInit
    /\ StoreInit(EngineQueueSize)
    /\ EngineInit
    /\ ObsInit
    /\ ThreadsInit
    /\ SchedInit
    /\ RequestInit
    /\ comp = [name |-> "config", interval_seconds |-> DEFAULT_SYNC_INTERVAL,
               batch_size |-> DEFAULT_BATCH_SIZE, afk_timeout_minutes |-> 10,
               hash_titles |-> TRUE, screenshots_enabled |-> FALSE,
               updates |-> 0, saved |-> FALSE]

\* config.py:357  min(sync["batch_size"], MAX_BATCH_SIZE)
server_batch_size(v) == Min(v, MAX_BATCH_SIZE)

\* config.py:355  max(30, sync["sync_interval_seconds"])
server_interval(v) == Max(MIN_SYNC_INTERVAL, v)

\* config.py:318-368  update_from_server(server_config)
update_from_server(sc) ==
    /\ comp' = [comp EXCEPT
                  !.hash_titles = IF sc.hash_window_titles # <<>>
                                  THEN sc.hash_window_titles[1] ELSE @,
                  !.afk_timeout_minutes =
                      IF sc.afk_timeout_minutes # <<>>
                         /\ sc.afk_timeout_minutes[1] \in AFK_TIMEOUTS
                      THEN sc.afk_timeout_minutes[1] ELSE @,
                  !.interval_seconds =
                      IF sc.sync_interval_seconds # <<>>
                      THEN server_interval(sc.sync_interval_seconds[1]) ELSE @,
                  !.batch_size = IF sc.batch_size # <<>>
                                 THEN server_batch_size(sc.batch_size[1]) ELSE @,
                  !.screenshots_enabled = IF sc.screenshots_enabled # <<>>
                                          THEN sc.screenshots_enabled[1] ELSE @,
                  !.updates = 1,
                  !.saved = TRUE]
    /\ UNCHANGED engineSide

NextConfig == \E sc \in ServerConfigs : update_from_server(sc)

SpecConfig == InitConfig /\ [][NextConfig]_vars

(***************************************************************************)
(* Properties                                                              *)
(***************************************************************************)
\* the tracker's event behind an outgoing event
TrackerEvent(e) == events[e.bucket_id][e.id]

\* C1: no event recorded inside a pause interval or a private-mode interval
\* that has ended is in the outgoing list a later sync() cycle has passed to
\* send_events (or enqueued).  Checked under Spec.
C1_HiddenEventsStayLocal ==
    pc \in {"queue", "heartbeat"} =>
        \A e \in Range(cyc.all_events) : <<e.bucket_id, e.id>> \notin cyc.hidden0

\* C2: for every bucket the persisted checkpoint never decreases, whatever
\* sync() cycles, pause(), set_private_mode(True), heartbeat commands and
\* restarts take place.  Checked under Spec.
C2_CheckpointMonotone ==
    [][\A b \in AllBuckets :
          checkpoints[b] # None =>
              checkpoints'[b] # None /\ checkpoints'[b] >= checkpoints[b]]_vars

\* C3: when a (bucket_id, id) pair that was already put in an outgoing batch
\* of this process lifetime is put in an outgoing batch again, its duration
\* exceeds the earlier one by at least 0.5 s.  Checked under Spec.
C3_ResendOnlyLonger ==
    [][pc = "buckets" =>
          \A i \in (Len(cyc.all_events) + 1)..Len(cyc'.all_events) :
              LET e == cyc'.all_events[i]
                  prev == CacheGet(sent_cache, <<e.bucket_id, e.id>>)
              IN prev # None => e.duration >= prev + DEDUP_EPS]_vars

\* C4 as stated: an event read from the tracker with a duration below 0.5 s
\* or with an app in exclude_apps is in no outgoing list, whatever else the
\* cycle fetched.  Checked under Spec.
C4_ShortAsReadNeverOutgoing ==
    \A e \in Range(cyc.all_events) :
        /\ TrackerEvent(e).duration >= MIN_DURATION
        /\ ~(TrackerEvent(e).app # NoApp /\ TrackerEvent(e).app \in exclude_apps)

\* C4 amended: every event of an outgoing list has, after gap filling, a
\* duration of at least 0.5 s, and its app is not in exclude_apps.
\* Checked under Spec.
C4_FilteredAfterGapFill ==
    \A e \in Range(cyc.all_events) :
        /\ e.duration >= MIN_DURATION
        /\ ~(e.app # NoApp /\ e.app \in exclude_apps)

\* a cycle has read both window events and the afk event; one window event
\* is of an excluded app, the other is short; neither is outgoing
C4_Witness ==
    /\ pc = "send"
    /\ stats.events_fetched = 3
    /\ stats.events_filtered = 2
    /\ \E b \in Range(WindowBuckets) :
         /\ \E i \in 1..Len(events[b]) :
              events[b][i].app \in exclude_apps /\ events[b][i].duration >= MIN_DURATION
         /\ \E j \in 1..Len(events[b]) :
              events[b][j].app \notin exclude_apps /\ events[b][j].duration < MIN_DURATION
    /\ \A e \in Range(cyc.all_events) : e.bucket_id \in Range(AfkBuckets)

\* C5: when _send_events is over (it returned, or an exception left it),
\* every event of the cycle's outgoing list was part of a send_events call
\* that reported success, or is in a row the cycle wrote to the offline queue.
\* Checked under SpecSend.
C5_OutgoingSentOrQueued ==
    (pc = "queue" \/ (pc = "done" /\ cyc.raised)) =>
        \A e \in Range(cyc.all_events) :
            \/ e \in cyc.acked
            \/ \E i \in 1..Len(rows) : rows[i].id >= cyc.row0 /\ rows[i].event_data = e

\* C6: the offline queue never holds more than max_size rows, also when
\* enqueue runs in two threads at once.  Checked under SpecQueue.
C6_QueueBounded == size(rows) <= max_size

\* C7: with no remove call and enqueue calls that did not overlap, dequeue(n)
\* returns the first n of the last min(total, max_size) events handed to
\* enqueue, in the order they were handed over.  Checked under SpecQueue.
C7_DequeueFifo ==
    (~enq.overlapped /\ \A t \in Threads : th[t].pc = "idle") =>
        \A n \in 0..MaxEnqueued :
            LET got == dequeue(rows, n)
                kept == Min(enq.total, max_size)
            IN [i \in 1..Len(got) |-> got[i].event_data]
                 = FirstN(Labels(enq.total - kept + 1, enq.total), n)

\* C8: once pause() or set_private_mode(True) has returned while a cycle is
\* in flight, that cycle makes no further send_events call.  Checked under Spec.
C8_NoSendOncePaused ==
    [][(paused \/ private_mode) => ~(\E answer \in Answers : SyncSend(answer))]_vars

\* C9: sync() called while paused or in private mode returns stats that are
\* all zero with no error, calls neither the tracker nor the remote and
\* writes neither the queue nor a checkpoint.  Checked under Spec.
C9_SkippedSyncTouchesNothing ==
    [][((paused \/ private_mode) /\ pc = "idle" /\ pc' # "idle") =>
          /\ pc' = "done"
          /\ stats' = EmptyStats
          /\ cyc'.touched = {}
          /\ cyc'.all_events = <<>>
          /\ UNCHANGED <<checkpoints, rows, next_row_id, sent_cache>>]_vars

\* sync() was called in private mode (not paused) and has returned
C9_Witness ==
    /\ pc = "done"
    /\ cyc = IdleCyc
    /\ stats = EmptyStats
    /\ private_mode
    /\ ~paused

\* C10: at most one runner is inside _do_sync / sync() at any time.
\* Checked under SpecSched.
C10_OneSyncAtATime ==
    Cardinality({r \in Runners : sched.run[r] = "sync"}) <= 1

\* C13: a request answered with 401 or 403 is attempted once: _request raises
\* the auth error right after that answer, with no further attempt and no
\* backoff sleep after it, whatever max_retries is and with retry on or off.
\* Checked under SpecRetry.
C13_AuthErrorNotRetried ==
    req.pc = "request" =>
        \A k \in 1..req.out.calls :
            req.answers[k] \in {"401", "403"} =>
                /\ req.out.calls = k
                /\ req.out.sleeps = k - 1
                /\ req.out.error = "BetterFlowAuthError"

\* retries are on and allowed, and the first attempt is answered 401
C13_Witness ==
    /\ req.pc = "request"
    /\ req.retry
    /\ req.max_retries >= 1
    /\ req.answers[1] = "401"
    /\ req.out.calls = 1
    /\ req.out.sleeps = 0

\* the outcomes of the attempts a retry_with_backoff call may make
RetryOuts == [k \in 1..(req.max_retries + 1) |-> do_request(req.answers[k])]
\* the attempts that end the call: a success or an error that is not retryable
RetryEnds == {k \in 1..(req.max_retries + 1) :
                 RetryOuts[k] = "ok" \/ ~is_instance(RetryOuts[k], req.retryable)}

\* C16: retry_with_backoff calls func at most max_retries + 1 times; it
\* returns at the first success and raises a non-retryable error at the
\* attempt that produced it, with no further call; when every attempt fails
\* with a retryable error it raises RetryExhausted whose last_error is the
\* error of the final attempt.  Checked under SpecRetry.
C16_RetryContract ==
    req.pc = "retry" =>
        /\ req.out.calls <= req.max_retries + 1
        /\ RetryEnds # {} =>
              LET k == CHOOSE k \in RetryEnds : \A j \in RetryEnds : k <= j
              IN /\ req.out.calls = k
                 /\ req.out.error = IF RetryOuts[k] = "ok" THEN NoError ELSE RetryOuts[k]
        /\ RetryEnds = {} =>
              /\ req.out.calls = req.max_retries + 1
              /\ req.out.error = "RetryExhausted"
              /\ req.out.last_error = RetryOuts[req.max_retries + 1]

\* every attempt failed with a retryable error, the last with another error
\* than the first
C16_Witness ==
    /\ req.pc = "retry"
    /\ req.max_retries >= 1
    /\ req.out.error = "RetryExhausted"
    /\ req.out.calls = req.max_retries + 1
    /\ req.out.last_error # do_request(req.answers[1])

\* the events of sub-batch cyc.batch_idx and of every later sub-batch
RemainingEvents == Range(batches_from(cyc.all_events, cyc.batch_idx))
\* rows written to the queue since the cycle began that hold the event e
RowsOf(rs, e) == {k \in 1..Len(rs) : rs[k].id >= cyc.row0 /\ rs[k].event_data = e}

\* C11: when the remote answers 401 or 403 to a send_events call of sync(),
\* the auth error leaves sync(): the cycle ends there with the error recorded
\* (and _do_sync goes to WAITING_AUTH).  Checked under SpecSend.
C11_AuthErrorLeavesSync ==
    [][\A answer \in {"401", "403"} :
          SyncSend(answer) =>
              /\ pc' = "done"
              /\ cyc'.raised
              /\ stats'.errors = stats.errors + 1]_vars

\* C12: when the upload of sub-batch i fails with an auth error, sub-batch i
\* and every later sub-batch are each enqueued exactly once, and no later
\* sub-batch is sent in the cycle.  Checked under SpecSend.
C12_AuthErrorQueuesTheRest ==
    [][\A answer \in {"401", "403"} :
          SyncSend(answer) =>
              /\ pc' # "send"
              /\ \A e \in RemainingEvents : Cardinality(RowsOf(rows', e)) = 1]_vars

\* C14: when the upload of a sub-batch fails with a transient or network
\* error, that sub-batch and all later ones are enqueued and the cycle makes
\* no further send_events call for its outgoing events.  Checked under SpecSend.
C14_TransientErrorQueuesTheRest ==
    [][\A answer \in {"503", "timeout"} :
          SyncSend(answer) =>
              /\ pc' # "send"
              /\ \A e \in RemainingEvents : RowsOf(rows', e) # {}]_vars

\* C15: when the remote rejects a batch with a 4xx other than 401/403, the
\* batch is not enqueued: an error is recorded in the stats and the offline
\* queue is left as it was.  Checked under SpecSend.
C15_PermanentErrorNotQueued ==
    [][SyncSend("422") =>
          /\ stats'.errors = stats.errors + 1
          /\ stats'.events_queued = stats.events_queued
          /\ UNCHANGED <<rows, next_row_id>>]_vars

\* the next step of _process_queue hands a batch of the queue to send_events
DrainSends == pc = "drain" /\ drain_batch(rows, cyc.processed) # <<>>

\* the claim's delay after the n-th failure, min(600, 60 * 2^(n-1)) seconds of
\* two ticks each
ClaimedDelay(n) == Min(2 * 600, 2 * 60 * Pow2(n - 1))

C18_QueueEmptiedWithinMaxRetries ==
    obs.drain.on /\ obs.drain.cycles > MAX_RETRIES => rows = <<>>

\* C19: no row of the queue is handed to send_events by _process_queue more
\* than max_retries (5) times
C19_SentAtMostMaxRetries ==
    obs.drain.on => \A id \in DOMAIN obs.drain.sends : obs.drain.sends[id] <= MAX_RETRIES

\* C20: within one sync() cycle the events of a bucket, taken over all the
\* send_events calls of the cycle in the order they are handed over, are in
\* non-decreasing timestamp order
C20_BucketOrderWithinCycle ==
    \A i, j \in DOMAIN cyc.sent :
        i < j /\ cyc.sent[i].bucket_id = cyc.sent[j].bucket_id =>
            cyc.sent[i].timestamp <= cyc.sent[j].timestamp

\* some set_private_mode(enabled) call is the step taken
PrivateCall(enabled) ==
    \E listed \in BOOLEAN : \E answer \in Answers : SetPrivateMode(enabled, listed, answer)

\* the private_time event the claim describes for an interval from p0 to p1
ClaimedPrivateEvent(p0, p1) ==
    [id |-> None, timestamp |-> p0, duration |-> p1 - p0, bucket_id |-> "",
     bucket_type |-> "private_time", app |-> NoApp, status |-> "private"]

CoveredByNotAfk(from, to, afk) ==
    \A t \in from..(to - 1) :
        \E k \in DOMAIN afk :
            /\ afk[k].status = "not-afk"
            /\ afk[k].timestamp <= t
            /\ t < afk[k].timestamp + afk[k].duration

\* the claim's condition on the pair (E_i, E_i+1): same app, a gap of 2 s to
\* 300 s (4 to 600 ticks) between E_i's end and E_i+1's start, covered by
\* not-afk events
ClaimedFill(wevs, i, afk) ==
    LET end_i == wevs[i].timestamp + wevs[i].duration
        gap == wevs[i + 1].timestamp - end_i
    IN /\ wevs[i].app = wevs[i + 1].app
       /\ gap >= 4 /\ gap <= 600
       /\ CoveredByNotAfk(end_i, wevs[i + 1].timestamp, afk)

C23_OneLockHolder ==
    comp.name = "lock" =>
        Cardinality({p \in LockProcs : comp.proc[p].pc = "held"}) <= 1

\* C24: no call of the shutdown sequence is executed more than once
C24_ShutdownAtMostOnce ==
    comp.name = "shutdown" => \A k \in DOMAIN ShutdownSteps : comp.executed[k] <= 1

\* the start() under way or just returned has launched a watcher
WatcherLaunched == \E k \in DOMAIN comp.launched : comp.launched[k] \in Range(BF_WATCHERS)
\* it launched the data service (managed mode) and has returned
ManagedStartReturned ==
    /\ comp.pc = "idle"
    /\ comp.result # "none"
    /\ comp.launched # <<>>
    /\ comp.launched[1] = BF_SERVER
\* it launches the server before any watcher, and a watcher only after /info
\* answered or the port was found open
StartInOrder ==
    /\ \A j, k \in DOMAIN comp.launched :
          comp.launched[j] \in Range(BF_WATCHERS) /\ comp.launched[k] = BF_SERVER => k < j
    /\ WatcherLaunched => comp.found_open \/ comp.info_at # None

StopReturned == comp.pc = "idle" /\ comp.stopped /\ comp.after = "return"

\* C26: stop() sends terminate to every running watcher before the data
\* service, kills a child no sooner than SHUTDOWN_TIMEOUT after its
\* terminate, and when it has returned the table of managed processes is
\* empty
C26_StopOrderAndEmptyTable ==
    comp.name = "supervisor" =>
        /\ \A j, k \in DOMAIN comp.signals :
              /\ comp.signals[j].sig = "terminate"
              /\ comp.signals[k].sig = "terminate"
              /\ comp.signals[j].to \in Range(BF_WATCHERS)
              /\ comp.signals[k].to = BF_SERVER
              => j < k
        /\ \A j, k \in DOMAIN comp.signals :
              /\ comp.signals[j].sig = "terminate"
              /\ comp.signals[k].sig = "kill"
              /\ comp.signals[j].to = comp.signals[k].to
              => comp.signals[k].at >= comp.signals[j].at + SHUTDOWN_TIMEOUT
        /\ StopReturned => \A c \in Components : comp.procs[c] = "absent"

\* C27: a sync cycle relaunches every child that has exited: after the
\* supervisor's part of _do_sync the child runs again, or the tracker as a
\* whole is being stopped and started
C27_ExitedChildRelaunched ==
    [][\A private, offline, responding, binaries, stale \in BOOLEAN :
       \A oks \in SUBSET Components :
         SupSync(private, offline, responding, binaries, oks, stale) =>
            \A c \in Components :
               comp.procs[c] = "exited" => comp'.procs[c] = "alive" \/ comp'.pc = "stop"]_vars

\* C28: the callback is fired for exactly the observations that differ from
\* the observation before them, never for the first, once each and with the
\* observed state as argument
C28_FiresOnKnownTransitions ==
    comp.name = "network" =>
        /\ \A k \in DOMAIN comp.seen :
              (\E f \in DOMAIN comp.fired : comp.fired[f].at = k)
              <=> (k > 1 /\ comp.seen[k] # comp.seen[k - 1])
        /\ \A f \in DOMAIN comp.fired : comp.fired[f].arg = comp.seen[comp.fired[f].at]
        /\ \A f, g \in DOMAIN comp.fired : comp.fired[f].at = comp.fired[g].at => f = g

\* start() has returned success with a code only when the first callback
\* carried the flow's state and that code
SuccessOnlyFromFirstCallback ==
    comp.result.success =>
        /\ comp.first.seen
        /\ comp.first.state = comp.expected_state
        /\ comp.first.code = comp.result.code
        /\ comp.result.code # Missing

\* what the first callback stored is what the server holds: the requests
\* after it are ignored
LaterCallbacksIgnored ==
    comp.first.seen =>
        /\ comp.auth_code = comp.first.auth_code
        /\ comp.auth_error = comp.first.auth_error

FirstStateRejected ==
    /\ comp.first.seen
    /\ comp.first.state = Missing \/ comp.first.state # comp.expected_state

\* C29 as stated: a first callback with a missing or different state never
\* sets auth_code and start() fails with state_mismatch
C29_StateCheckedOnFirstCallback ==
    comp.name = "auth" =>
        /\ SuccessOnlyFromFirstCallback
        /\ LaterCallbacksIgnored
        /\ FirstStateRejected =>
              /\ comp.auth_code = Missing
              /\ comp.pc = "returned" =>
                    comp.result = [success |-> FALSE, code |-> Missing,
                                   error |-> "state_mismatch"]

\* C29: the same, with start() failing with state_mismatch when the callback
\* was handled before its wait ended
C29_StateCheckedWhileWaiting ==
    comp.name = "auth" =>
        /\ SuccessOnlyFromFirstCallback
        /\ LaterCallbacksIgnored
        /\ FirstStateRejected =>
              /\ comp.auth_code = Missing
              /\ comp.pc = "returned" /\ comp.first.waiting =>
                    comp.result = [success |-> FALSE, code |-> Missing,
                                   error |-> "state_mismatch"]

C29_Witness ==
    /\ comp.name = "auth"
    /\ comp.pc = "returned"
    /\ FirstStateRejected
    /\ comp.first.waiting
    /\ comp.first.code # Missing
    /\ comp.handled = MaxAuthRequests
    /\ comp.result.error = "state_mismatch"

AddsReturned == \A x \in DailyThreads : comp.t[x].pc = "idle"

\* C30: when the calls of add_active_time for one date have returned, the
\* total in memory and the total in the table are both the sum of the positive
\* amounts added for the date, whatever the interleaving of the calls
C30_NoLostUpdate ==
    comp.name = "daily" =>
        (AddsReturned /\ comp.positive > 0 =>
            /\ comp.today = AddDate
            /\ comp.today_seconds = comp.added
            /\ comp.db[AddDate] = comp.added)

\* positive amounts were added by threads whose calls overlapped, and all
\* the calls have returned
C30_Witness ==
    /\ comp.name = "daily"
    /\ AddsReturned
    /\ comp.positive = MaxAddCalls
    /\ comp.waited = MaxAddCalls - 1
    /\ comp.today_seconds = comp.added
    /\ comp.db[AddDate] = comp.added

\* C31: a break notification is sent only when tracking is active and at
\* least the break interval has passed since tracking last became active and
\* since the break notification before it
C31_BreakOnlyAfterInterval ==
    comp.name = "reminder" =>
        (comp.sent.on =>
            /\ comp.sent.began # None
            /\ comp.sent.at - comp.sent.began >= comp.sent.interval
            /\ comp.prev # None => comp.sent.at - comp.prev >= comp.sent.interval)

\* a break notification sent in an active period that began after an earlier
\* notification and a stop, as soon as the interval had passed
C31_Witness ==
    /\ comp.name = "reminder"
    /\ comp.sent.on
    /\ comp.prev # None
    /\ comp.sent.began > comp.prev
    /\ comp.sent.at = comp.sent.began + comp.sent.interval

\* the offline queue holds the event id of bucket b
Queued(b, id) ==
    \E k \in DOMAIN rows : rows[k].event_data.bucket_id = b /\ rows[k].event_data.id = id

\* the checkpoint of b is so far past the event that no later cycle fetches it
BehindLookback(b, e) ==
    checkpoints[b] # None /\ e.timestamp < checkpoints[b] - LOOKBACK

\* C32: between two cycles, whatever step a restart cut the last cycle at, an
\* event that passed the filter and that the checkpoint has been moved past
\* (beyond the look-back) has been acknowledged or is in the offline queue;
\* the remote of SpecCrash acknowledges nothing
C32_CheckpointAfterDelivery ==
    pc = "idle" =>
        \A b \in Range(WindowBuckets) : \A i \in DOMAIN events[b] :
            ~is_filtered(events[b][i]) /\ BehindLookback(b, events[b][i])
                => Queued(b, events[b][i].id)

\* C33: an event recorded after the checkpoint that passes the filter is put
\* in an outgoing batch before the checkpoint leaves it behind the look-back.
\* In SpecBacklog every event of an outgoing batch is in the offline queue
\* from the end of the cycle on
C33_EveryEventInSomeBatch ==
    \A i \in DOMAIN events["bw"] :
        LET e == events["bw"][i]
        IN pc \in {"idle", "heartbeat"} /\ ~is_filtered(e) /\ ~Queued("bw", e.id)
              => ~BehindLookback("bw", e)

\* the rows the step removes from the offline queue during the drain: the
\* remote has acknowledged them
DrainDelivered == {k \in DOMAIN rows : pc = "drain" /\ rows[k] \notin Range(rows')}

\* C34: an event the drain delivers carries a duration at least that of every
\* copy of the same (bucket_id, id) the cycle's direct upload has delivered
\* before
C34_DeliveredDurationsGrow ==
    [][\A k \in DrainDelivered : \A e \in cyc.acked :
          (e.bucket_id = rows[k].event_data.bucket_id /\ e.id = rows[k].event_data.id)
             => rows[k].event_data.duration >= e.duration]_vars

\* C35: the engine stays paused while a pause asked for by the user or by a
\* heartbeat command has not been lifted by the user's resume, and while a
\* pause for network loss is owed and the network is offline
C35_PauseHeldUntilUserResume ==
    comp.name = "pause" =>
        /\ comp.held # "none" => paused
        /\ comp.net_pause /\ ~comp.online => paused

\* C36: the private_time event of a set_private_mode call whose upload failed
\* is in the offline queue; every upload of SpecPrivateOffline fails
C36_FailedPrivateEventQueued ==
    \A i \in DOMAIN obs.private.sent :
        \E k \in DOMAIN rows : rows[k].event_data = obs.private.sent[i]

\* the half second from t on lies inside a not-afk event of the list
InsideNotAfk(t, afk) ==
    \E k \in DOMAIN afk :
        /\ afk[k].status = "not-afk"
        /\ afk[k].timestamp <= t
        /\ t + 1 <= afk[k].timestamp + afk[k].duration

\* C37: _is_active_during(start, end, afk_events) is True exactly when every
\* instant of [start, end) lies inside a not-afk event of the list
C37_ActiveIffCovered ==
    req.pc = "called" =>
        (req.result <=> \A t \in req.start..(req.end - 1) : InsideNotAfk(t, req.afk_events))

\* the same for the events of one watcher
C37_ActiveIffCoveredOneBucket ==
    req.pc = "called" /\ req.buckets = 1 =>
        (req.result <=> \A t \in req.start..(req.end - 1) : InsideNotAfk(t, req.afk_events))

\* C38: a transformed event carries the earlier of the original timestamp and
\* the clock plus one minute, and the original duration or 0 if that is
\* negative
C38_TimestampClampedToOneMinuteAhead ==
    req.pc = "called" /\ req.out # <<>> =>
        /\ req.out[1].timestamp = Min(req.event.timestamp, now + FUTURE_CLAMP)
        /\ req.out[1].duration = Max(0, req.event.duration)

\* C39: when stop() has returned, no child the supervisor launched is running
C39_NoChildRunsAfterStop ==
    comp.name = "supervisor" =>
        (StopReturned => \A c \in Components : comp.procs[c] # "alive")

\* C40: after an update from the server the batch size lies in
\* 1..MAX_BATCH_SIZE and the sync interval is at least 30 s
C40_ServerConfigWithinBounds ==
    comp.name = "config" /\ comp.updates > 0 =>
        /\ comp.batch_size \in 1..MAX_BATCH_SIZE
        /\ comp.interval_seconds >= MIN_SYNC_INTERVAL

====
